---- MODULE Spec2Model ----
(***************************************************************************)
(* Model of codex-cli-account-switcher: the file lock, the state store,    *)
(* the usage fetcher, the cached bulk fetch and the commands that use      *)
(* them.  Text is a sequence of one-character strings; the two keywords    *)
(* the state file starts its lines with are single tokens.                 *)
(***************************************************************************)
EXTENDS Integers, Sequences, FiniteSets, TLC

\* ------------------------------------------------------------ bounds
NProcs == 2
Procs == 1..NProcs

\* ------------------------------------------------------------ text
NUL == "NUL"
NL == "\n"
SQ == "'"
DQ == "\""
BS == "\\"
SP == " "
EQ == "="

\* shlex._find_unsafe: [^\w@%+=:,./-]
SafeChars == {"a", "b", EQ}
Whitespace == {SP, NL}

RECURSIVE ReplaceQuote(_)
ReplaceQuote(s) ==
    IF s = <<>> THEN <<>>
    ELSE (IF Head(s) = SQ THEN <<SQ, DQ, SQ, DQ, SQ>> ELSE <<Head(s)>>)
         \o ReplaceQuote(Tail(s))

\* shlex.quote
ShlexQuote(s) ==
    IF s = <<>> THEN <<SQ, SQ>>
    ELSE IF \A i \in 1..Len(s) : s[i] \in SafeChars THEN s
    ELSE <<SQ>> \o ReplaceQuote(s) \o <<SQ>>

\* The text save_state writes, as its two lines.
StateLine1(cur) == <<"CURRENT", EQ>> \o ShlexQuote(cur) \o <<NL>>
StateLine2(prev) == <<"PREVIOUS", EQ>> \o ShlexQuote(prev) \o <<NL>>
StateContent(cur, prev) == StateLine1(cur) \o StateLine2(prev)

\* str.strip
RECURSIVE LStrip(_)
LStrip(s) == IF s # <<>> /\ Head(s) \in Whitespace THEN LStrip(Tail(s)) ELSE s
RECURSIVE RStrip(_)
RStrip(s) ==
    IF s # <<>> /\ s[Len(s)] \in Whitespace THEN RStrip(SubSeq(s, 1, Len(s) - 1)) ELSE s
Strip(s) == RStrip(LStrip(s))

\* shlex.shlex(posix=True).read_token with whitespace_split and no commenters,
\* run over the whole text as shlex.split does.  st is the lexer's state:
\* "ws" between tokens, "a" in a word, a quote character, or "esc" after a
\* backslash (est the state to go back to).  The answer is the tokens, or err
\* for the ValueError of an unclosed quote or a trailing backslash.
RECURSIVE Shlex(_, _, _, _, _)
Shlex(rest, st, est, tok, toks) ==
    IF rest = <<>>
    THEN IF st \in {SQ, DQ, "esc"} THEN [err |-> TRUE, toks |-> toks]
         ELSE IF st = "a" THEN [err |-> FALSE, toks |-> Append(toks, tok)]
         ELSE [err |-> FALSE, toks |-> toks]
    ELSE LET c == Head(rest)
             r == Tail(rest)
         IN CASE st = "ws" ->
                   IF c \in Whitespace THEN Shlex(r, "ws", est, <<>>, toks)
                   ELSE IF c = BS THEN Shlex(r, "esc", "a", <<>>, toks)
                   ELSE IF c \in {SQ, DQ} THEN Shlex(r, c, est, <<>>, toks)
                   ELSE Shlex(r, "a", est, <<c>>, toks)
              [] st = "a" ->
                   IF c \in Whitespace THEN Shlex(r, "ws", est, <<>>, Append(toks, tok))
                   ELSE IF c \in {SQ, DQ} THEN Shlex(r, c, est, tok, toks)
                   ELSE IF c = BS THEN Shlex(r, "esc", "a", tok, toks)
                   ELSE Shlex(r, "a", est, Append(tok, c), toks)
              [] st \in {SQ, DQ} ->
                   IF c = st THEN Shlex(r, "a", est, tok, toks)
                   ELSE IF c = BS /\ st = DQ THEN Shlex(r, "esc", st, tok, toks)
                   ELSE Shlex(r, st, est, Append(tok, c), toks)
              [] st = "esc" ->
                   IF est \in {SQ, DQ} /\ c # BS /\ c # est
                   THEN Shlex(r, est, est, tok \o <<BS, c>>, toks)
                   ELSE Shlex(r, est, est, Append(tok, c), toks)

ShlexSplit(s) == Shlex(s, "ws", "a", <<>>, <<>>)

\* _decode_shell_value: state.py 10-22, codex_accounts.py 56-68
DecodeShellValue(raw0) ==
    LET raw == Strip(raw0)
        r == ShlexSplit(raw)
    IN IF raw = <<>> THEN <<>>
       ELSE IF ~r.err /\ r.toks # <<>> THEN r.toks[1]
       ELSE IF Len(raw) >= 2 /\ raw[1] = raw[Len(raw)] /\ raw[1] \in {DQ, SQ}
       THEN SubSeq(raw, 2, Len(raw) - 1)
       ELSE raw

\* str.splitlines: the lines of a text, their line breaks dropped.
RECURSIVE SplitLines(_, _)
SplitLines(s, line) ==
    IF s = <<>> THEN (IF line = <<>> THEN <<>> ELSE <<line>>)
    ELSE IF Head(s) = NL THEN <<line>> \o SplitLines(Tail(s), <<>>)
    ELSE SplitLines(Tail(s), Append(line, Head(s)))

\* The index of the first "=" of a line, 0 when it has none.
RECURSIVE FirstEq(_, _)
FirstEq(line, i) ==
    IF i > Len(line) THEN 0 ELSE IF line[i] = EQ THEN i ELSE FirstEq(line, i + 1)

\* The loop of load_state over the lines read, from the pair st on.
RECURSIVE ParseLines(_, _)
ParseLines(lines, st) ==
    IF lines = <<>> THEN st
    ELSE LET line == Head(lines)
             e == FirstEq(line, 1)
             key == Strip(SubSeq(line, 1, e - 1))
             value == SubSeq(line, e + 1, Len(line))
         IN IF e = 0 THEN ParseLines(Tail(lines), st)
            ELSE IF key = <<"CURRENT">>
            THEN ParseLines(Tail(lines), [st EXCEPT !.cur = DecodeShellValue(value)])
            ELSE IF key = <<"PREVIOUS">>
            THEN ParseLines(Tail(lines), [st EXCEPT !.prev = DecodeShellValue(value)])
            ELSE ParseLines(Tail(lines), st)

ParseState(text) == ParseLines(SplitLines(text, <<>>), [cur |-> <<>>, prev |-> <<>>])

\* ------------------------------------------------------------ files
Max(a, b) == IF a >= b THEN a ELSE b
Min(a, b) == IF a <= b THEN a ELSE b

NoFile == [exists |-> FALSE, text |-> <<>>]
EmptyFile == [exists |-> TRUE, text |-> <<>>]

\* write(2) of data at a byte offset of a file another writer may have cut
\* or extended: a gap is filled with NUL, bytes past the data stay.
WriteAt(text, off, data) ==
    LET n == Max(Len(text), off + Len(data))
    IN [i \in 1..n |->
          IF i > off /\ i <= off + Len(data) THEN data[i - off]
          ELSE IF i <= Len(text) THEN text[i]
          ELSE NUL]

\* ------------------------------------------------------------ usage fetcher
\* A credential file as fetch_usage_for_auth meets it: whether it can be read
\* and parsed, and the shape of the JSON value in it.  "other" is a value of
\* the wrong type that is not falsy: a non-empty list, a string, a number.
AuthShape(file, top, tokens, tok, acct, key) ==
    [file |-> file, top |-> top, tokens |-> tokens, access_token |-> tok,
     account_id |-> acct, api_key |-> key]

\* used_percent of a window: none (absent or null), a number (n2 is twice its
\* value, so halves are at hand), NaN, or a value float() refuses.
NoUsed == [t |-> "none", n2 |-> 0]
\* reset_at of a window: none, a whole number, or a value int() refuses.
NoResetAt == [t |-> "none", n |-> 0]
Window(isdict, used, reset) == [isdict |-> isdict, used |-> used, reset_at |-> reset]
NoWindow == Window(FALSE, NoUsed, NoResetAt)

\* The endpoint's answer: an HTTP error status, a transport failure, or a body.
Response(net, code, body, top, rl, w1, w2) ==
    [net |-> net, code |-> code, body |-> body, top |-> top, rate_limit |-> rl,
     primary |-> w1, secondary |-> w2]

\* Python's round() of a number given as twice its value: halves go to the
\* even neighbour.
RoundHalfEven(x2) ==
    LET q == x2 \div 2
    IN IF x2 % 2 = 0 THEN q ELSE IF q % 2 = 0 THEN q ELSE q + 1

\* _remaining_percent: usage.py 47-58, codex_accounts.py 174-185.  v is the
\* value, -1 standing for None; raised says round() refused a NaN.
RemainingPercent(used) ==
    CASE used.t = "none" -> [raised |-> FALSE, v |-> -1]
      [] used.t = "bad" -> [raised |-> FALSE, v |-> -1]
      [] used.t = "nan" -> [raised |-> TRUE, v |-> -1]
      [] used.t = "num" ->
           LET r2 == 200 - used.n2
               c2 == IF r2 < 0 THEN 0 ELSE IF r2 > 200 THEN 200 ELSE r2
           IN [raised |-> FALSE, v |-> RoundHalfEven(c2)]

\* _window_info: usage.py 61-76, codex_accounts.py 188-201
WindowInfo(w) ==
    IF ~w.isdict THEN [used_percent |-> NoUsed, reset_at |-> 0]
    ELSE [used_percent |-> w.used,
          reset_at |-> IF w.reset_at.t = "int" THEN w.reset_at.n ELSE 0]

Reason(r, code) == [r |-> r, code |-> code]
NoInfo == [used_percent |-> NoUsed, reset_at |-> 0]
Failure(r, code, key) ==
    [ok |-> FALSE, reason |-> Reason(r, code), has_api_key |-> key,
     primary |-> NoInfo, secondary |-> NoInfo,
     fiveh_remaining |-> -1, weekly_remaining |-> -1]

Returned(requested, res) == [raised |-> FALSE, requested |-> requested, res |-> res]
Raised(requested) ==
    [raised |-> TRUE, requested |-> requested, res |-> Failure("raised", 0, FALSE)]

\* fetch_usage_for_auth: usage.py 79-131, codex_accounts.py 204-255.  The
\* answer is the returned dict, or raised for an exception no except clause
\* of the function catches; requested says an HTTP request was made.
FetchUsageForAuth(auth, resp) ==
    CASE auth.file = "missing" -> Returned(FALSE, Failure("auth_missing", 0, FALSE))
      [] auth.file \in {"unreadable", "not_json"} ->
           Returned(FALSE, Failure("auth_read_failed", 0, FALSE))
      [] OTHER ->
           \* auth.get, and tokens.get of a truthy tokens, need a dict
           IF auth.top # "object" \/ auth.tokens = "other" THEN Raised(FALSE)
           ELSE IF auth.tokens = "falsy" \/ ~auth.access_token
           THEN Returned(FALSE, Failure("no_access_token", 0, auth.api_key))
           ELSE IF resp.net = "http_error"
           THEN Returned(TRUE, Failure("http", resp.code, FALSE))
           ELSE IF resp.net = "failed"
           THEN Returned(TRUE, Failure("http_failed", 0, FALSE))
           ELSE IF resp.body = "not_json"
           THEN Returned(TRUE, Failure("payload_parse_failed", 0, FALSE))
           \* payload.get, and rate_limit.get of a truthy rate_limit, need a dict
           ELSE IF resp.top # "object" \/ resp.rate_limit = "other" THEN Raised(TRUE)
           ELSE LET primary == WindowInfo(IF resp.rate_limit = "dict"
                                          THEN resp.primary ELSE NoWindow)
                    secondary == WindowInfo(IF resp.rate_limit = "dict"
                                            THEN resp.secondary ELSE NoWindow)
                    fiveh == RemainingPercent(primary.used_percent)
                    weekly == RemainingPercent(secondary.used_percent)
                IN IF fiveh.raised \/ weekly.raised THEN Raised(TRUE)
                   ELSE Returned(TRUE,
                          [ok |-> TRUE, reason |-> Reason("", 0), has_api_key |-> FALSE,
                           primary |-> primary, secondary |-> secondary,
                           fiveh_remaining |-> fiveh.v, weekly_remaining |-> weekly.v])

\* ------------------------------------------------------------ state
Locks == {"state", "cache"}
\* Arguments of the save_state calls of a run.
SaveArgs == {<<<<"a">>, <<"b">>>>, <<<<"b">>, <<>>>>}

VARIABLES
    hasFcntl,   \* the fcntl import succeeded (lock.py 9-12)
    pc,         \* each process's place in the operation it runs
    op,         \* each process's operation and its arguments
    site,       \* each process's with statement: save, load, cread, cwrite
    after,      \* each process's way out of the with block: next, return, raise
    ret,        \* each process's returned value
    fh,         \* FileLock._fh of the process's live FileLock: a lock or "none"
    flockHeld,  \* per lock file, the processes whose open handle holds flock
    leaked,     \* per process, lock files it has an open handle of that no
                \* __exit__ will close
    nexit,      \* per process, the __exit__ calls of the current with statement
    stateFile,  \* the state file
    torn,       \* a write of the state file failed after the file was cut
    now,        \* time.time()
    authStat,   \* per credential file, what stat() of it gives
    cfgUrl,     \* the URL usage_url makes of the config file
    home,       \* ~/.codex/auth.json and the saved profiles of ~/codex-data
    cacheFile,  \* the usage cache file
    bulk,       \* each process's locals of fetch_usage_bulk
    prev,       \* per process, the bulk fetch that ended before the current one
    calls,      \* the bulk fetches begun
    given       \* the inputs of a lone call of a function

confVars == <<hasFcntl, calls, given>>
ctlVars == <<pc, op, site, after, ret>>
lockVars == <<fh, flockHeld, leaked, nexit>>
stateVars == <<stateFile, torn>>
envVars == <<now, authStat, cfgUrl, home>>
cacheVars == <<cacheFile, bulk, prev>>
vars == <<hasFcntl, pc, op, site, after, ret, fh, flockHeld, leaked, nexit,
          stateFile, torn, now, authStat, cfgUrl, home, cacheFile, bulk, prev, calls,
          given>>

EmptyMap == <<>>
NoOp ==
    [kind |-> "none", impl |-> "none", cur |-> <<>>, prev |-> <<>>,
     paths |-> <<>>, ttl |-> 0, conc |-> 0]
NoRet == [kind |-> "none", cur |-> <<>>, prev |-> <<>>, map |-> EmptyMap]

\* The lock file a FileLock of this operation is made for.
LockOf(o) == IF o.kind \in {"save_state", "load_state"} THEN "state" ELSE "cache"

\* No operation wraps its file access in FileLock.
NeverLocks(o) == FALSE

\* The modules wrap their file access in FileLock; codex_accounts.py (the
\* commands) reads and writes the same files bare.
UsesLock(o) == o.impl = "modules"

\* The first statement of the with block.
BodyPc(s) ==
    CASE s = "save" -> "save_open"
      [] s = "load" -> "load_read"
      [] s = "cread" -> "cache_read"
      [] s = "cwrite" -> "cache_trunc"

\* Where control goes when the with block (or, without FileLock, the bare
\* statements) is left by falling through, by return or by an exception.
AfterPc(s, a) ==
    CASE s \in {"save", "load"} -> IF a = "raise" THEN "raised" ELSE "returned"
      [] s = "cread" -> IF a = "return" THEN "returned" ELSE "submit"
      [] s = "cwrite" -> "returned"

\* ------------------------------------------------------------ FileLock
\* with FileLock(...): the FileLock is made (__init__) and __enter__ begins.
WithLock(p, s) ==
    /\ site' = [site EXCEPT ![p] = s]
    /\ after' = [after EXCEPT ![p] = "next"]
    /\ nexit' = [nexit EXCEPT ![p] = 0]
    /\ pc' = [pc EXCEPT ![p] = "enter_open"]
    /\ UNCHANGED <<fh, flockHeld, leaked>>

\* The same statements without a FileLock around them.
Bare(p, s) ==
    /\ site' = [site EXCEPT ![p] = s]
    /\ after' = [after EXCEPT ![p] = "next"]
    /\ pc' = [pc EXCEPT ![p] = BodyPc(s)]
    /\ UNCHANGED lockVars

Guarded(p, o, s) == IF UsesLock(o) THEN WithLock(p, s) ELSE Bare(p, s)

\* __enter__, lines 26-27: mkdir of the parent and open("a+").  A failure
\* raises out of the with statement; __exit__ is not called.
EnterOpen(p) ==
    /\ pc[p] = "enter_open"
    /\ \/ /\ fh' = [fh EXCEPT ![p] = LockOf(op[p])]
          /\ pc' = [pc EXCEPT ![p] = "enter_flock"]
       \/ /\ pc' = [pc EXCEPT ![p] = "raised"]
          /\ fh' = fh
    /\ UNCHANGED <<op, site, after, ret, flockHeld, leaked, nexit>>
    /\ UNCHANGED <<confVars, stateVars, envVars, cacheVars>>

\* A flock that never waits.
FlockNoWait(p, l) == TRUE

\* A flock that waits while any lock file is held.
FlockOneDomain(p, l) == \A k \in Locks : flockHeld[k] = {}

\* flock(LOCK_EX) waits while another open handle of the file holds it.
FlockFree(p, l) == flockHeld[l] = {}

\* __enter__, lines 28-30: flock when fcntl is there.  A flock that fails
\* raises with the handle open; __exit__ is not called, so nothing closes it.
EnterFlock(p) ==
    /\ pc[p] = "enter_flock"
    /\ \/ /\ hasFcntl
          /\ FlockFree(p, fh[p])
          /\ flockHeld' = [flockHeld EXCEPT ![fh[p]] = @ \cup {p}]
          /\ pc' = [pc EXCEPT ![p] = BodyPc(site[p])]
          /\ UNCHANGED <<fh, leaked>>
       \/ /\ hasFcntl
          /\ leaked' = [leaked EXCEPT ![p] = @ \cup {fh[p]}]
          /\ fh' = [fh EXCEPT ![p] = "none"]
          /\ pc' = [pc EXCEPT ![p] = "raised"]
          /\ UNCHANGED flockHeld
       \/ /\ ~hasFcntl
          /\ pc' = [pc EXCEPT ![p] = BodyPc(site[p])]
          /\ UNCHANGED <<fh, flockHeld, leaked>>
    /\ UNCHANGED <<op, site, after, ret, nexit>>
    /\ UNCHANGED <<confVars, stateVars, envVars, cacheVars>>

\* The with block left with __exit__ never run.
LeaveHeld(p, a) ==
    /\ after' = [after EXCEPT ![p] = a]
    /\ pc' = [pc EXCEPT ![p] = AfterPc(site[p], a)]

\* The with block (or the bare statements) is left the way a says.
Leave(p, a) ==
    IF UsesLock(op[p])
    THEN /\ after' = [after EXCEPT ![p] = a]
         /\ pc' = [pc EXCEPT ![p] = "exit_unlock"]
    ELSE /\ after' = [after EXCEPT ![p] = a]
         /\ pc' = [pc EXCEPT ![p] = AfterPc(site[p], a)]

\* __exit__, lines 33-37: flock(LOCK_UN), which may raise into the finally.
ExitUnlock(p) ==
    /\ pc[p] = "exit_unlock"
    /\ nexit' = [nexit EXCEPT ![p] = @ + 1]
    /\ IF fh[p] = "none"
       THEN /\ pc' = [pc EXCEPT ![p] = AfterPc(site[p], after[p])]
            /\ UNCHANGED flockHeld
       ELSE /\ pc' = [pc EXCEPT ![p] = "exit_close"]
            /\ \/ /\ hasFcntl
                  /\ flockHeld' = [flockHeld EXCEPT ![fh[p]] = @ \ {p}]
               \/ UNCHANGED flockHeld
    /\ UNCHANGED <<op, site, after, ret, fh, leaked>>
    /\ UNCHANGED <<confVars, stateVars, envVars, cacheVars>>

\* __exit__, lines 38-40: close, which gives up a flock still held.
ExitClose(p) ==
    /\ pc[p] = "exit_close"
    /\ pc' = [pc EXCEPT ![p] = AfterPc(site[p], after[p])]
    /\ flockHeld' = [flockHeld EXCEPT ![fh[p]] = @ \ {p}]
    /\ fh' = [fh EXCEPT ![p] = "none"]
    /\ UNCHANGED <<op, site, after, ret, leaked, nexit>>
    /\ UNCHANGED <<confVars, stateVars, envVars, cacheVars>>

\* The interpreter frees the FileLock a failed __enter__ left behind and with
\* it the handle: at some later time or never.
Finalize(p) ==
    /\ leaked[p] # {}
    /\ leaked' = [leaked EXCEPT ![p] = {}]
    /\ UNCHANGED <<fh, flockHeld, nexit>>
    /\ UNCHANGED <<confVars, ctlVars, stateVars, envVars, cacheVars>>

\* ------------------------------------------------------------ state store
SaveOp(impl, a) ==
    [NoOp EXCEPT !.kind = "save_state", !.impl = impl, !.cur = a[1], !.prev = a[2]]
LoadOp(impl) == [NoOp EXCEPT !.kind = "load_state", !.impl = impl]

\* save_state: state.py 45-48 with the lock, codex_accounts.py 91-93 bare.
StartSave(p, o) ==
    /\ pc[p] = "idle"
    /\ op' = [op EXCEPT ![p] = o]
    /\ Guarded(p, o, "save")
    /\ UNCHANGED ret
    /\ UNCHANGED <<confVars, stateVars, envVars, cacheVars>>

\* write_text: open("w") cuts the file to nothing, or fails and leaves it.
SaveOpen(p) ==
    /\ pc[p] = "save_open"
    /\ \/ /\ stateFile' = EmptyFile
          /\ pc' = [pc EXCEPT ![p] = "save_write1"]
          /\ UNCHANGED after
       \/ /\ Leave(p, "raise")
          /\ UNCHANGED stateFile
    /\ UNCHANGED <<op, site, ret, torn>>
    /\ UNCHANGED <<confVars, lockVars, envVars, cacheVars>>

\* write_text: the text reaches the file at the writer's own offset, the
\* first line and then the second; a failing write leaves what is there.
SaveWrite1(p) ==
    /\ pc[p] = "save_write1"
    /\ \/ /\ stateFile' = [exists |-> TRUE,
                           text |-> WriteAt(stateFile.text, 0, StateLine1(op[p].cur))]
          /\ pc' = [pc EXCEPT ![p] = "save_write2"]
          /\ UNCHANGED <<after, torn>>
       \/ /\ Leave(p, "raise")
          /\ torn' = TRUE
          /\ UNCHANGED stateFile
    /\ UNCHANGED <<op, site, ret>>
    /\ UNCHANGED <<confVars, lockVars, envVars, cacheVars>>

SaveWrite2(p) ==
    /\ pc[p] = "save_write2"
    /\ \/ /\ stateFile' = [exists |-> TRUE,
                           text |-> WriteAt(stateFile.text, Len(StateLine1(op[p].cur)),
                                            StateLine2(op[p].prev))]
          /\ Leave(p, "next")
          /\ UNCHANGED torn
       \/ /\ Leave(p, "raise")
          /\ torn' = TRUE
          /\ UNCHANGED stateFile
    /\ UNCHANGED <<op, site, ret>>
    /\ UNCHANGED <<confVars, lockVars, envVars, cacheVars>>

\* load_state: state.py 25-42 with the lock, codex_accounts.py 71-88 bare.
StartLoad(p, o) ==
    /\ pc[p] = "idle"
    /\ op' = [op EXCEPT ![p] = o]
    /\ Guarded(p, o, "load")
    /\ UNCHANGED ret
    /\ UNCHANGED <<confVars, stateVars, envVars, cacheVars>>

StateRet(st) == [NoRet EXCEPT !.kind = "state", !.cur = st.cur, !.prev = st.prev]

\* exists(), read_text() and the loop over the lines; a failing read is
\* caught and leaves both names empty.
LoadRead(p) ==
    /\ pc[p] = "load_read"
    /\ \/ ret' = [ret EXCEPT ![p] =
                    IF stateFile.exists
                    THEN StateRet(ParseState(stateFile.text))
                    ELSE StateRet([cur |-> <<>>, prev |-> <<>>])]
       \/ /\ stateFile.exists
          /\ ret' = [ret EXCEPT ![p] = StateRet([cur |-> <<>>, prev |-> <<>>])]
    /\ Leave(p, "next")
    /\ UNCHANGED <<op, site>>
    /\ UNCHANGED <<confVars, lockVars, stateVars, envVars, cacheVars>>

\* ------------------------------------------------------------ usage cache
Paths == {"p1", "p2"}
Urls == {"u1", "u2"}

\* What stat() of a credential file gives: nothing, or its mtime and size.
Missing == [exists |-> FALSE, mtime |-> 0, size |-> 0]
Stat(m, z) == [exists |-> TRUE, mtime |-> m, size |-> z]
Stats == {Missing, Stat(0, 1), Stat(1, 1), Stat(1, 2)}
\* The credential file that changes in a run.
Changing == {"p1"}

\* usage.py 147-153: "path:mtime:size", or "path:missing"
Fingerprint(path, st) ==
    IF st.exists
    THEN [path |-> path, missing |-> FALSE, mtime |-> st.mtime, size |-> st.size]
    ELSE [path |-> path, missing |-> TRUE, mtime |-> 0, size |-> 0]

Fingerprints(paths, stats) ==
    [i \in 1..Len(paths) |-> Fingerprint(paths[i], stats[i])]

\* A JSON value where the code expects one type: the value of that type, a
\* falsy value of another type (or none: the key is absent), or a truthy
\* value of another type.
Num(n) == [t |-> "num", n |-> n]
BadNum == [t |-> "bad", n |-> 0]
JList(l) == [t |-> "list", l |-> l]
FalsyList == [t |-> "falsy", l |-> <<>>]
JStr(x) == [t |-> "str", s |-> x]
FalsyStr == [t |-> "falsy", s |-> ""]
JDict(d) == [t |-> "dict", d |-> d]
FalsyDict == [t |-> "falsy", d |-> EmptyMap]
OtherDict == [t |-> "other", d |-> EmptyMap]

\* The cache file's content: text that is not JSON (an empty or cut file
\* too), JSON that is no object, or an object with the entry's keys.
Garbage ==
    [kind |-> "garbage", fetched_at |-> Num(0), paths |-> FalsyList, url |-> FalsyStr,
     auth_fingerprints |-> FalsyList, results |-> FalsyDict]
NonObject == [Garbage EXCEPT !.kind = "nonobject"]
CacheEntry(fa, paths, url, fps, results) ==
    [kind |-> "object", fetched_at |-> fa, paths |-> paths, url |-> url,
     auth_fingerprints |-> fps, results |-> results]

\* x.get(key) or []  compared with a list; or ""  compared with a string
ListEq(f, l) == f.t # "other" /\ (IF f.t = "list" THEN f.l ELSE <<>>) = l
StrEq(f, x) == f.t # "other" /\ (IF f.t = "str" THEN f.s ELSE "") = x

CacheMiss == [hit |-> FALSE, results |-> EmptyMap]
CacheHit(r) == [hit |-> TRUE, results |-> IF r.t = "dict" THEN r.d ELSE EmptyMap]

\* The read-through without its test of the entry's age.
CacheLookupStale(val, paths, url, fps, ttl, t) ==
    IF val.kind # "object" \/ val.fetched_at.t = "bad" THEN CacheMiss
    ELSE IF /\ ListEq(val.paths, paths)
            /\ StrEq(val.url, url)
            /\ ListEq(val.auth_fingerprints, fps)
    THEN (IF val.results.t = "other" THEN CacheMiss ELSE CacheHit(val.results))
    ELSE CacheMiss

\* usage.py 159-175: the body of the try of the read-through; an exception
\* in it is caught and the fetch goes on as on a miss.
CacheLookup(val, paths, url, fps, ttl, t) ==
    IF val.kind # "object" \/ val.fetched_at.t = "bad" THEN CacheMiss
    ELSE IF /\ (t - val.fetched_at.n) <= ttl
            /\ ListEq(val.paths, paths)
            /\ StrEq(val.url, url)
            /\ ListEq(val.auth_fingerprints, fps)
    THEN (IF val.results.t = "other" THEN CacheMiss ELSE CacheHit(val.results))
    ELSE CacheMiss

\* codex_accounts.py 337-347: the same without the fingerprints
CacheLookupBare(val, paths, url, fps, ttl, t) ==
    IF val.kind # "object" \/ val.fetched_at.t = "bad" THEN CacheMiss
    ELSE IF /\ (t - val.fetched_at.n) <= ttl
            /\ ListEq(val.paths, paths)
            /\ StrEq(val.url, url)
    THEN (IF val.results.t = "other" THEN CacheMiss ELSE CacheHit(val.results))
    ELSE CacheMiss

\* A future of the pool: queued, running, finished or collected by the loop
\* over as_completed; raised says its task raised, res is what it returned.
Fut(st, raised, res) == [st |-> st, raised |-> raised, res |-> res]
NoResult == Failure("none", 0, FALSE)

\* The locals of fetch_usage_bulk: url, the stat() results the fingerprints
\* are made of, the futures, results; and of what it did: the fetcher calls
\* made, the cache content the read-through got and when, the hit, the time
\* put in the entry, the entry written.
NoBulk ==
    [url |-> "", stats |-> <<>>, futs |-> <<>>, results |-> EmptyMap,
     ncalls |-> 0, looked |-> FALSE, hit |-> FALSE, readc |-> Garbage, tread |-> 0,
     fetched_at |-> 0, wrote |-> FALSE]
\* Of the bulk fetch before: it missed and wrote the entry, and the stat()
\* results of its files when it began.
NoPrev == [wrote |-> FALSE, impl |-> "none", entry |-> Garbage, stats |-> <<>>]

BulkOp(impl, paths, ttl, conc) ==
    [NoOp EXCEPT !.kind = "fetch_usage_bulk", !.impl = impl, !.paths = paths,
                 !.ttl = ttl, !.conc = conc]

\* A pool with a worker a path.
WorkerEach(o) == Len(o.paths)

\* usage.py 178, codex_accounts.py 350
MaxWorkers(o) == Max(1, Min(o.conc, Len(o.paths)))

\* An entry dumped without the fingerprints.
EntryBare(o, b) ==
    CacheEntry(Num(b.fetched_at), JList(o.paths), JStr(b.url), FalsyList,
               JDict(b.results))

\* The entry the write-back dumps: with the fingerprints in usage.py 196-208,
\* without them in codex_accounts.py 365-371.
EntryOf(o, b) ==
    CacheEntry(Num(b.fetched_at), JList(o.paths), JStr(b.url),
               IF o.impl = "modules" THEN JList(Fingerprints(o.paths, b.stats))
               ELSE FalsyList,
               JDict(b.results))

\* ------------------------------------------------------------ bulk fetch
\* fetch_usage_bulk up to the read-through: usage.py 142-157,
\* codex_accounts.py 329-336.  No path: {} at once.  Else the URL, the paths
\* and (usage.py) the fingerprints, then the cache when it is to be consulted.
StartBulk(p, o) ==
    /\ pc[p] = "idle"
    /\ op' = [op EXCEPT ![p] = o]
    /\ IF o.paths = <<>>
       THEN /\ pc' = [pc EXCEPT ![p] = "returned"]
            /\ ret' = [ret EXCEPT ![p] = [NoRet EXCEPT !.kind = "results"]]
            /\ UNCHANGED <<site, after, bulk>>
            /\ UNCHANGED lockVars
       ELSE /\ bulk' = [bulk EXCEPT ![p] =
                          [NoBulk EXCEPT
                             !.url = cfgUrl,
                             !.stats = [i \in 1..Len(o.paths) |-> authStat[o.paths[i]]]]]
            /\ ret' = ret
            /\ IF o.ttl > 0 /\ cacheFile.exists
               THEN Guarded(p, o, "cread")
               ELSE /\ pc' = [pc EXCEPT ![p] = "submit"]
                    /\ UNCHANGED <<site, after>>
                    /\ UNCHANGED lockVars
    /\ calls' = calls + 1
    /\ UNCHANGED <<hasFcntl, given, cacheFile, prev>>
    /\ UNCHANGED <<stateVars, envVars>>

Lookup(o, val, b, t) ==
    IF o.impl = "modules"
    THEN CacheLookup(val, o.paths, b.url, Fingerprints(o.paths, b.stats), o.ttl, t)
    ELSE CacheLookupBare(val, o.paths, b.url, <<>>, o.ttl, t)

\* The read-through: read_text, json.loads and the comparison.  A read that
\* fails is caught like text that does not parse.
CacheRead(p) ==
    /\ pc[p] = "cache_read"
    /\ \E val \in {cacheFile.val, Garbage} :
         LET r == Lookup(op[p], val, bulk[p], now)
         IN /\ bulk' = [bulk EXCEPT ![p] =
                          [@ EXCEPT !.looked = TRUE, !.hit = r.hit, !.readc = val,
                                    !.tread = now]]
            /\ IF r.hit
               THEN /\ ret' = [ret EXCEPT ![p] =
                                 [NoRet EXCEPT !.kind = "results", !.map = r.results]]
                    /\ Leave(p, "return")
               ELSE /\ ret' = ret
                    /\ Leave(p, "next")
    /\ UNCHANGED <<op, site, cacheFile, prev>>
    /\ UNCHANGED <<confVars, lockVars, stateVars, envVars>>

\* usage.py 183-184, codex_accounts.py 355-356: the pool and one submit a path
Submit(p) ==
    /\ pc[p] = "submit"
    /\ bulk' = [bulk EXCEPT ![p] =
                  [@ EXCEPT !.futs = [i \in 1..Len(op[p].paths) |->
                                        Fut("queued", FALSE, NoResult)],
                            !.looked = FALSE, !.readc = Garbage, !.tread = 0]]
    /\ pc' = [pc EXCEPT ![p] = "pool"]
    /\ UNCHANGED <<op, site, after, ret, cacheFile, prev>>
    /\ UNCHANGED <<confVars, lockVars, stateVars, envVars>>

Running(b) == {i \in 1..Len(b.futs) : b.futs[i].st = "running"}

\* A worker of the pool takes the oldest queued task: _task calls the fetcher.
TaskStart(p, i) ==
    /\ pc[p] = "pool"
    /\ i \in 1..Len(bulk[p].futs)
    /\ bulk[p].futs[i].st = "queued"
    /\ \A j \in 1..(i - 1) : bulk[p].futs[j].st # "queued"
    /\ Cardinality(Running(bulk[p])) < MaxWorkers(op[p])
    /\ bulk' = [bulk EXCEPT ![p] =
                  [@ EXCEPT !.futs[i].st = "running", !.ncalls = @ + 1]]
    /\ UNCHANGED <<cacheFile, prev>>
    /\ UNCHANGED <<confVars, ctlVars, lockVars, stateVars, envVars>>

\* What the credential file can hold given what stat() says of it.
AuthFits(auth, st) ==
    IF st.exists THEN auth.file # "missing" ELSE auth.file \in {"missing", "unreadable"}

\* The fetcher call of a task ends: with a result, or with an exception.
TaskFinish(p, i, auth, resp) ==
    /\ pc[p] = "pool"
    /\ i \in 1..Len(bulk[p].futs)
    /\ bulk[p].futs[i].st = "running"
    /\ AuthFits(auth, authStat[op[p].paths[i]])
    /\ LET r == FetchUsageForAuth(auth, resp)
       IN bulk' = [bulk EXCEPT ![p] =
                     [@ EXCEPT !.futs[i] = Fut("finished", r.raised, r.res)]]
    /\ UNCHANGED <<cacheFile, prev>>
    /\ UNCHANGED <<confVars, ctlVars, lockVars, stateVars, envVars>>

\* A mapping that keeps the last key put only.
PutOnly(m, k, v) == [x \in {k} |-> v]

Put(m, k, v) == [x \in (DOMAIN m) \cup {k} |-> IF x = k THEN v ELSE m[x]]

\* usage.py 185-190, codex_accounts.py 357-362: the loop over as_completed
\* takes a finished future; one whose task raised is passed over.
Collect(p, i) ==
    /\ pc[p] = "pool"
    /\ i \in 1..Len(bulk[p].futs)
    /\ bulk[p].futs[i].st = "finished"
    /\ bulk' = [bulk EXCEPT ![p] =
                  [@ EXCEPT !.futs[i].st = "collected",
                            !.results = IF bulk[p].futs[i].raised THEN @
                                        ELSE Put(@, op[p].paths[i], bulk[p].futs[i].res)]]
    /\ UNCHANGED <<cacheFile, prev>>
    /\ UNCHANGED <<confVars, ctlVars, lockVars, stateVars, envVars>>

\* The pool is left with every future collected.  usage.py 193 writes back
\* when the TTL is positive, codex_accounts.py 364 always.
PoolExit(p) ==
    /\ pc[p] = "pool"
    /\ \A i \in 1..Len(bulk[p].futs) : bulk[p].futs[i].st = "collected"
    /\ ret' = [ret EXCEPT ![p] =
                 [NoRet EXCEPT !.kind = "results", !.map = bulk[p].results]]
    /\ IF op[p].impl = "modules" /\ op[p].ttl <= 0
       THEN /\ pc' = [pc EXCEPT ![p] = "returned"]
            /\ UNCHANGED <<site, after>>
            /\ UNCHANGED lockVars
       ELSE Guarded(p, op[p], "cwrite")
    /\ UNCHANGED <<op, cacheFile, bulk, prev>>
    /\ UNCHANGED <<confVars, stateVars, envVars>>

\* json.dumps with time.time(), then write_text: open("w") cuts the file, or
\* fails, which is caught.
CacheTrunc(p) ==
    /\ pc[p] = "cache_trunc"
    /\ \/ /\ cacheFile' = [exists |-> TRUE, val |-> Garbage]
          /\ bulk' = [bulk EXCEPT ![p] = [@ EXCEPT !.fetched_at = now]]
          /\ pc' = [pc EXCEPT ![p] = "cache_write"]
          /\ UNCHANGED after
       \/ /\ Leave(p, "next")
          /\ UNCHANGED <<cacheFile, bulk>>
    /\ UNCHANGED <<op, site, ret, prev>>
    /\ UNCHANGED <<confVars, lockVars, stateVars, envVars>>

\* write_text: the text reaches the file, or the write fails, which is
\* caught.  Text written over what another writer put there since the cut
\* may leave a blend that does not parse.
CacheWrite(p) ==
    /\ pc[p] = "cache_write"
    /\ \/ /\ cacheFile' = [exists |-> TRUE, val |-> EntryOf(op[p], bulk[p])]
          /\ bulk' = [bulk EXCEPT ![p] = [@ EXCEPT !.wrote = TRUE]]
       \/ /\ cacheFile.val.kind = "object"
          /\ cacheFile' = [exists |-> TRUE, val |-> Garbage]
          /\ bulk' = bulk
       \/ UNCHANGED <<cacheFile, bulk>>
    /\ Leave(p, "next")
    /\ UNCHANGED <<op, site, ret, prev>>
    /\ UNCHANGED <<confVars, lockVars, stateVars, envVars>>

\* The operation is over and the process, short-lived, exits: the system
\* closes what it left open.  The next invocation takes its place.
Reset(p) ==
    /\ pc[p] \in {"returned", "raised"}
    /\ pc' = [pc EXCEPT ![p] = "idle"]
    /\ op' = [op EXCEPT ![p] = NoOp]
    /\ ret' = [ret EXCEPT ![p] = NoRet]
    /\ site' = [site EXCEPT ![p] = "save"]
    /\ after' = [after EXCEPT ![p] = "next"]
    /\ nexit' = [nexit EXCEPT ![p] = 0]
    /\ leaked' = [leaked EXCEPT ![p] = {}]
    /\ bulk' = [bulk EXCEPT ![p] = NoBulk]
    /\ prev' = [prev EXCEPT ![p] =
                  IF pc[p] = "returned" /\ bulk[p].wrote
                  THEN [wrote |-> TRUE, impl |-> op[p].impl,
                        entry |-> EntryOf(op[p], bulk[p]), stats |-> bulk[p].stats]
                  ELSE NoPrev]
    /\ UNCHANGED <<fh, flockHeld, cacheFile>>
    /\ UNCHANGED <<confVars, stateVars, envVars>>

\* fetch_usage_for_auth called by itself on the file and answer given.
FetchCall(p) ==
    /\ pc[p] = "idle"
    /\ op' = [op EXCEPT ![p] =
                [NoOp EXCEPT !.kind = "fetch_usage_for_auth", !.impl = "modules"]]
    /\ LET r == FetchUsageForAuth(given.auth, given.resp)
       IN /\ pc' = [pc EXCEPT ![p] = IF r.raised THEN "raised" ELSE "returned"]
          /\ ret' = [ret EXCEPT ![p] =
                       [NoRet EXCEPT !.kind = "usage",
                                     !.map = [x \in {"result", "requested"} |->
                                                IF x = "result" THEN r.res
                                                ELSE r.requested]]]
    /\ UNCHANGED <<site, after>>
    /\ UNCHANGED <<confVars, lockVars, stateVars, envVars, cacheVars>>

\* ------------------------------------------------------------ environment
MaxTime == 2
MaxTTL == 1
MaxCalls == 2

\* Time passes between two invocations.
Tick ==
    /\ \A p \in Procs : pc[p] = "idle"
    /\ now < MaxTime
    /\ now' = now + 1
    /\ UNCHANGED <<authStat, cfgUrl, home>>
    /\ UNCHANGED <<confVars, ctlVars, lockVars, stateVars, cacheVars>>

\* Between two invocations a credential file is written, replaced or removed.
Touch(f, st) ==
    /\ \A p \in Procs : pc[p] = "idle"
    /\ authStat[f] # st
    /\ authStat' = [authStat EXCEPT ![f] = st]
    /\ UNCHANGED <<now, cfgUrl, home>>
    /\ UNCHANGED <<confVars, ctlVars, lockVars, stateVars, cacheVars>>

\* Between two invocations the config file is edited.
SetUrl(u) ==
    /\ \A p \in Procs : pc[p] = "idle"
    /\ cfgUrl # u
    /\ cfgUrl' = u
    /\ UNCHANGED <<now, authStat, home>>
    /\ UNCHANGED <<confVars, ctlVars, lockVars, stateVars, cacheVars>>

\* What can be found in place of an entry: text that is not JSON, JSON that
\* is no object, and an entry with one field of a wrong type.
Damaged(val) ==
    {Garbage, NonObject}
    \cup (IF val.kind = "object"
          THEN {[val EXCEPT !.fetched_at = BadNum],
                [val EXCEPT !.results = FalsyDict],
                [val EXCEPT !.results = OtherDict]}
          ELSE {})

\* Between two invocations something other than the program rewrites the
\* cache file.
Corrupt(val) ==
    /\ \A p \in Procs : pc[p] = "idle"
    /\ cacheFile.exists
    /\ val \in Damaged(cacheFile.val)
    /\ val # cacheFile.val
    /\ cacheFile' = [exists |-> TRUE, val |-> val]
    /\ UNCHANGED <<bulk, prev>>
    /\ UNCHANGED <<confVars, ctlVars, lockVars, stateVars, envVars>>

\* The names a profile goes by in the runs of the commands: plain ones, one
\* with a line break in it, and what load_state makes of that one.  They
\* stand in the order sorted() gives their files.
SavedOrder == <<<<SQ, "a">>, <<"a", NL, "b">>, <<"a">>, <<"b">>>>
ProfileNames == {SavedOrder[i] : i \in DOMAIN SavedOrder}

\* What auth_identity_for_file makes of a file: "absent" when the file is
\* not there, "" (None) when it holds no account, else the account.
Absent == "absent"
Identities == {"", "1", "2"}
NoHome == [auth |-> Absent, saved |-> [n \in ProfileNames |-> Absent]]

\* ------------------------------------------------------------ specifications
InitProcs ==
    /\ pc = [p \in Procs |-> "idle"]
    /\ op = [p \in Procs |-> NoOp]
    /\ site = [p \in Procs |-> "save"]
    /\ after = [p \in Procs |-> "next"]
    /\ ret = [p \in Procs |-> NoRet]
    /\ fh = [p \in Procs |-> "none"]
    /\ flockHeld = [l \in Locks |-> {}]
    /\ leaked = [p \in Procs |-> {}]
    /\ nexit = [p \in Procs |-> 0]
    /\ stateFile = NoFile
    /\ torn = FALSE
    /\ now = 0
    /\ authStat = [f \in Paths |-> Stat(0, 1)]
    /\ cfgUrl = "u1"
    /\ home = NoHome
    /\ cacheFile = [exists |-> FALSE, val |-> Garbage]
    /\ bulk = [p \in Procs |-> NoBulk]
    /\ prev = [p \in Procs |-> NoPrev]
    /\ calls = 0

\* A good credential file and an answer with both windows.
OkAuth == AuthShape("json", "object", "dict", TRUE, TRUE, FALSE)
OkResponse ==
    Response("ok", 200, "json", "object", "dict",
             Window(TRUE, [t |-> "num", n2 |-> 25], [t |-> "int", n |-> 9]),
             Window(TRUE, [t |-> "num", n2 |-> 120], [t |-> "int", n |-> 0]))

LockStep(p) ==
    \/ EnterOpen(p)
    \/ EnterFlock(p)
    \/ ExitUnlock(p)
    \/ ExitClose(p)
    \/ Finalize(p)

\* Processes that call the state store of codex_accounts_state.py.
InitLock ==
    /\ hasFcntl \in BOOLEAN
    /\ given = [auth |-> OkAuth, resp |-> OkResponse]
    /\ InitProcs

StoreStep(p) ==
    \/ \E a \in SaveArgs : StartSave(p, SaveOp("modules", a))
    \/ StartLoad(p, LoadOp("modules"))
    \/ SaveOpen(p)
    \/ SaveWrite1(p)
    \/ SaveWrite2(p)
    \/ LoadRead(p)
    \/ Reset(p)

NextLock == \E p \in Procs : StoreStep(p) \/ LockStep(p)

SpecLock == InitLock /\ [][NextLock]_vars

\* One invocation after another of fetch_usage_bulk of codex_accounts_usage.py
\* while time passes and the files change.
PathLists == {<<>>, <<"p1">>, <<"p1", "p2">>, <<"p2", "p1">>}

\* The credential files and answers of these runs: a file that is gone, one
\* holding a JSON list, and a good one answered with usage.
CacheInputs ==
    {<<AuthShape("missing", "other", "falsy", FALSE, FALSE, FALSE), OkResponse>>,
     <<AuthShape("json", "other", "falsy", FALSE, FALSE, FALSE), OkResponse>>,
     <<OkAuth, OkResponse>>}

InitCache ==
    /\ hasFcntl = TRUE
    /\ given = [auth |-> OkAuth, resp |-> OkResponse]
    /\ InitProcs

BulkStep(p) ==
    \/ CacheRead(p)
    \/ Submit(p)
    \/ \E i \in 1..2 : TaskStart(p, i)
    \/ \E i \in 1..2, x \in CacheInputs : TaskFinish(p, i, x[1], x[2])
    \/ \E i \in 1..2 : Collect(p, i)
    \/ PoolExit(p)
    \/ CacheTrunc(p)
    \/ CacheWrite(p)

\* The files change once a first fetch has been made.
EnvStep ==
    \/ Tick
    \/ \E f \in Changing, st \in Stats : Touch(f, st)
    \/ \E u \in Urls : SetUrl(u)
    \/ \E val \in Damaged(cacheFile.val) : Corrupt(val)

NextCache ==
    \/ /\ calls < MaxCalls
       /\ \E paths \in PathLists, ttl \in 0..MaxTTL :
            StartBulk(1, BulkOp("modules", paths, ttl, 2))
    \/ BulkStep(1)
    \/ LockStep(1)
    \/ Reset(1)
    \/ calls \in 1..(MaxCalls - 1) /\ EnvStep

SpecCache == InitCache /\ [][NextCache]_vars

\* The commands of codex_accounts.py, one invocation after another: its own
\* fetch_usage_bulk with the settings of lines 33-34, and after the fetches
\* its load_state and save_state.
USAGE_FETCH_CONCURRENCY == 6
USAGE_CACHE_TTL_SEC == 20

InitCmd ==
    /\ hasFcntl = TRUE
    /\ given = [auth |-> OkAuth, resp |-> OkResponse]
    /\ InitProcs

NextCmd ==
    \/ calls = MaxCalls /\ \E a \in SaveArgs : StartSave(1, SaveOp("monolith", a))
    \/ calls = MaxCalls /\ StartLoad(1, LoadOp("monolith"))
    \/ SaveOpen(1)
    \/ SaveWrite1(1)
    \/ SaveWrite2(1)
    \/ LoadRead(1)
    \/ /\ calls < MaxCalls
       /\ \E paths \in PathLists :
            StartBulk(1, BulkOp("monolith", paths, USAGE_CACHE_TTL_SEC,
                                USAGE_FETCH_CONCURRENCY))
    \/ BulkStep(1)
    \/ Reset(1)
    \/ calls \in 1..(MaxCalls - 1) /\ EnvStep

SpecCmd == InitCmd /\ [][NextCmd]_vars

\* fetch_usage_for_auth by itself, over the credential files and the answers
\* it can meet.
Bools == {TRUE, FALSE}
AuthShapes ==
    {AuthShape(f, "other", "falsy", FALSE, FALSE, FALSE) :
        f \in {"missing", "unreadable", "not_json", "json"}}
    \cup {AuthShape("json", "object", t, a, TRUE, k) :
            t \in {"dict", "falsy", "other"}, a \in Bools, k \in Bools}
Useds ==
    {NoUsed, [t |-> "bad", n2 |-> 0], [t |-> "nan", n2 |-> 0]}
    \cup {[t |-> "num", n2 |-> n] : n \in {0, 25, 195, 250}}
Windows ==
    {NoWindow} \cup {Window(TRUE, u, [t |-> "int", n |-> 9]) : u \in Useds}
    \cup {Window(TRUE, NoUsed, r) : r \in {NoResetAt, [t |-> "bad", n |-> 0]}}
Responses ==
    {Response("http_error", c, "not_json", "other", "falsy", NoWindow, NoWindow) :
        c \in {401, 500}}
    \cup {Response("failed", 0, "not_json", "other", "falsy", NoWindow, NoWindow),
          Response("ok", 200, "not_json", "other", "falsy", NoWindow, NoWindow),
          Response("ok", 200, "json", "other", "falsy", NoWindow, NoWindow),
          Response("ok", 200, "json", "object", "falsy", NoWindow, NoWindow),
          Response("ok", 200, "json", "object", "other", NoWindow, NoWindow)}
    \cup {Response("ok", 200, "json", "object", "dict", w1, w2) :
            w1 \in Windows, w2 \in Windows}

InitFetch ==
    /\ hasFcntl = TRUE
    /\ given \in [auth : AuthShapes, resp : Responses]
    /\ InitProcs

NextFetch == FetchCall(1) \/ Reset(1)

SpecFetch == InitFetch /\ [][NextFetch]_vars

\* ------------------------------------------------------------ account selection
\* codex_accounts_heuristic.py. A field of a candidate is a whole number or a
\* value int() refuses (None); the name is a string, empty when it is absent.
PyInt(n) == [t |-> "int", n |-> n]
PyNone == [t |-> "none", n |-> 0]
Candidate(name, weekly, fiveh, wreset, freset) ==
    [name |-> name, weekly_remaining |-> weekly, fiveh_remaining |-> fiveh,
     weekly_reset_at |-> wreset, fiveh_reset_at |-> freset]
\* The value None as a returned name.
NoName == ""

ToInt(value, default) == IF value.t = "int" THEN value.n ELSE default

\* Time to a reset: unknown when no reset time is there, never below 1.
Ttr(reset, now_ts, unknown_reset_ttr_sec) ==
    IF reset > 0
    THEN IF reset - now_ts < 1 THEN 1 ELSE reset - now_ts
    ELSE unknown_reset_ttr_sec

\* The candidate has both remaining values.
KnownFiveh(weekly, fiveh) == ~(fiveh < 0)
Known(weekly, fiveh) == ~(weekly < 0 \/ fiveh < 0)

\* The hard usability filter.
UsableAlways(fiveh, fiveh_unusable_pct) == TRUE
Usable(fiveh, fiveh_unusable_pct) == ~(fiveh <= fiveh_unusable_pct)

NoBest ==
    [set |-> FALSE, weekly |-> 0, fiveh |-> 0, ttr_weekly |-> 0, wreset |-> 0,
     name |-> NoName]
NoFallback == [set |-> FALSE, fiveh |-> 0, ttr_fiveh |-> 0, name |-> NoName]

\* The fallback is replaced by a candidate of more 5-hour remaining, or of
\* the same and a nearer 5-hour reset.
FallbackAny(fb, fiveh, ttr_fiveh) == fiveh >= fb.fiveh
FallbackBetter(fb, fiveh, ttr_fiveh) ==
    fiveh > fb.fiveh \/ (fiveh = fb.fiveh /\ ttr_fiveh < fb.ttr_fiveh)

\* best is replaced by a candidate of greater weekly urgency (compared by
\* cross multiplication), then of more weekly remaining, then of more 5-hour
\* remaining, then of an earlier weekly reset that is there.
ReplacesByRatio(b, weekly, fiveh, ttr_weekly, wreset) ==
    weekly * b.ttr_weekly > b.weekly * ttr_weekly
Replaces(b, weekly, fiveh, ttr_weekly, wreset) ==
    LET lhs == weekly * b.ttr_weekly
        rhs == b.weekly * ttr_weekly
    IN IF lhs > rhs THEN TRUE
       ELSE IF lhs = rhs
       THEN IF weekly > b.weekly THEN TRUE
            ELSE IF weekly = b.weekly
            THEN IF fiveh > b.fiveh THEN TRUE
                 ELSE IF fiveh = b.fiveh
                 THEN IF wreset # 0 /\ b.wreset # 0 THEN wreset < b.wreset
                      ELSE wreset # 0 /\ b.wreset = 0
                 ELSE FALSE
            ELSE FALSE
       ELSE FALSE

\* One turn of the loop over the candidates.
ChooseStep(st, c, now_ts, fiveh_unusable_pct, unknown_reset_ttr_sec) ==
    LET name == c.name
        weekly == ToInt(c.weekly_remaining, -1)
        fiveh == ToInt(c.fiveh_remaining, -1)
        wreset == ToInt(c.weekly_reset_at, 0)
        freset == ToInt(c.fiveh_reset_at, 0)
        ttr_weekly == Ttr(wreset, now_ts, unknown_reset_ttr_sec)
        ttr_fiveh == Ttr(freset, now_ts, unknown_reset_ttr_sec)
        mine == [set |-> TRUE, weekly |-> weekly, fiveh |-> fiveh,
                 ttr_weekly |-> ttr_weekly, wreset |-> wreset, name |-> name]
        fallback ==
            IF ~st.fallback.set \/ FallbackBetter(st.fallback, fiveh, ttr_fiveh)
            THEN [set |-> TRUE, fiveh |-> fiveh, ttr_fiveh |-> ttr_fiveh,
                  name |-> name]
            ELSE st.fallback
    IN IF name = "" THEN st
       ELSE IF ~Known(weekly, fiveh) THEN st
       ELSE IF ~Usable(fiveh, fiveh_unusable_pct)
       THEN [st EXCEPT !.fallback = fallback]
       ELSE IF ~st.best.set
               \/ Replaces(st.best, weekly, fiveh, ttr_weekly, wreset)
       THEN [best |-> mine, fallback |-> fallback]
       ELSE [st EXCEPT !.fallback = fallback]

RECURSIVE ChooseLoop(_, _, _, _, _)
ChooseLoop(st, candidates, now_ts, fiveh_unusable_pct, unknown_reset_ttr_sec) ==
    IF candidates = <<>> THEN st
    ELSE ChooseLoop(ChooseStep(st, Head(candidates), now_ts, fiveh_unusable_pct,
                               unknown_reset_ttr_sec),
                    Tail(candidates), now_ts, fiveh_unusable_pct,
                    unknown_reset_ttr_sec)

ChooseAccount(candidates, now_ts, fiveh_unusable_pct, unknown_reset_ttr_sec) ==
    LET st == ChooseLoop([best |-> NoBest, fallback |-> NoFallback], candidates,
                         now_ts, fiveh_unusable_pct, unknown_reset_ttr_sec)
    IN IF st.best.set THEN st.best.name
       ELSE IF st.fallback.set THEN st.fallback.name
       ELSE NoName

\* choose_account called by itself on the candidates given.
ChooseCall(p) ==
    /\ pc[p] = "idle"
    /\ op' = [op EXCEPT ![p] = [NoOp EXCEPT !.kind = "choose_account"]]
    /\ pc' = [pc EXCEPT ![p] = "returned"]
    /\ ret' = [ret EXCEPT ![p] =
                 [NoRet EXCEPT !.kind = "picked",
                               !.map = [x \in {"picked"} |->
                                          ChooseAccount(given.candidates,
                                                        given.now_ts,
                                                        given.fiveh_unusable_pct,
                                                        given.unknown_reset_ttr_sec)]]]
    /\ UNCHANGED <<confVars, site, after, lockVars, stateVars, envVars, cacheVars>>

\* The tunables of automatic selection. The time to an unknown reset is ten
\* years in the program; here it is a time far beyond every known reset of
\* the candidates, small enough for the products of 32-bit integers.
AUTO_SWITCH_FIVEH_UNUSABLE_PCT == 5
UnknownResetTtr == 1000

\* The longest candidate list, the time of the call, and the remaining and
\* reset values a candidate can hold: unknown weekly, unknown 5-hour, 5-hour
\* at or below the threshold, equal urgency with different weekly and 5-hour
\* remaining, no weekly remaining with resets absent, ahead and past.
MaxCands == 3
ChooseNow == 12
Names == {"a", "b", "c"}
Quotas ==
    {<<PyInt(-1), PyInt(60), PyInt(13), PyInt(13)>>,
     <<PyNone, PyInt(5), PyNone, PyNone>>,
     <<PyInt(80), PyInt(-1), PyInt(13), PyInt(13)>>,
     <<PyInt(90), PyInt(3), PyInt(13), PyInt(14)>>,
     <<PyInt(90), PyInt(5), PyInt(0), PyInt(13)>>,
     <<PyInt(70), PyInt(5), PyInt(0), PyInt(15)>>,
     <<PyInt(80), PyInt(50), PyInt(14), PyInt(0)>>,
     <<PyInt(40), PyInt(50), PyInt(13), PyInt(0)>>,
     <<PyInt(80), PyInt(60), PyInt(14), PyInt(0)>>,
     <<PyInt(0), PyInt(50), PyInt(0), PyInt(0)>>,
     <<PyInt(0), PyInt(50), PyInt(13), PyInt(0)>>,
     <<PyInt(0), PyInt(50), PyInt(11), PyInt(0)>>}
Candidates ==
    {Candidate(n, q[1], q[2], q[3], q[4]) : n \in Names, q \in Quotas}
    \cup {Candidate("", PyInt(90), PyInt(90), PyInt(13), PyInt(13))}
\* The named candidates of a list have different names.
DistinctNames(l) ==
    \A i, j \in DOMAIN l : l[i].name = l[j].name => i = j
CandidateLists ==
    UNION {{l \in [1..n -> Candidates] : DistinctNames(l)} : n \in 0..MaxCands}

InitChoose ==
    /\ hasFcntl = TRUE
    /\ given \in [candidates : CandidateLists,
                  now_ts : {ChooseNow},
                  fiveh_unusable_pct : {AUTO_SWITCH_FIVEH_UNUSABLE_PCT},
                  unknown_reset_ttr_sec : {UnknownResetTtr}]
    /\ InitProcs

NextChoose == ChooseCall(1) \/ Reset(1)

SpecChoose == InitChoose /\ [][NextChoose]_vars

\* ------------------------------------------------------------ automatic selection
\* codex_accounts.py: the built-in algorithm. A field int() refuses that is
\* truthy (a word) makes the candidate be passed over; None as a reset time
\* counts as 0, None as a remaining value makes int() fail.
PyBad == [t |-> "bad", n |-> 0]

\* The comparison without its last branch.
DefaultReplacesNoAbsent(b, weekly, fiveh, ttr_weekly, wreset) ==
    LET lhs == weekly * b.ttr_weekly
        rhs == b.weekly * ttr_weekly
    IN \/ lhs > rhs
       \/ lhs = rhs /\ weekly > b.weekly
       \/ lhs = rhs /\ weekly = b.weekly /\ fiveh > b.fiveh
       \/ /\ lhs = rhs /\ weekly = b.weekly /\ fiveh = b.fiveh
          /\ wreset # 0 /\ b.wreset # 0 /\ wreset < b.wreset

\* Lines 421-437: whether the candidate takes the place of best.
DefaultReplaces(b, weekly, fiveh, ttr_weekly, wreset) ==
    LET lhs == weekly * b.ttr_weekly
        rhs == b.weekly * ttr_weekly
    IN \/ lhs > rhs
       \/ lhs = rhs /\ weekly > b.weekly
       \/ lhs = rhs /\ weekly = b.weekly /\ fiveh > b.fiveh
       \/ /\ lhs = rhs /\ weekly = b.weekly /\ fiveh = b.fiveh
          /\ \/ wreset # 0 /\ b.wreset # 0 /\ wreset < b.wreset
             \/ wreset # 0 /\ b.wreset = 0

DefaultChooseStep(st, c, now_ts, fiveh_unusable_pct, unknown_reset_ttr_sec) ==
    LET name == c.name
        refused == \/ c.weekly_remaining.t # "int"
                   \/ c.fiveh_remaining.t # "int"
                   \/ c.weekly_reset_at.t = "bad"
                   \/ c.fiveh_reset_at.t = "bad"
        weekly == c.weekly_remaining.n
        fiveh == c.fiveh_remaining.n
        wreset == IF c.weekly_reset_at.t = "int" THEN c.weekly_reset_at.n ELSE 0
        freset == IF c.fiveh_reset_at.t = "int" THEN c.fiveh_reset_at.n ELSE 0
        ttr_weekly == IF wreset > 0 THEN Max(1, wreset - now_ts)
                      ELSE unknown_reset_ttr_sec
        ttr_fiveh == IF freset > 0 THEN Max(1, freset - now_ts)
                     ELSE unknown_reset_ttr_sec
        mine == [set |-> TRUE, weekly |-> weekly, fiveh |-> fiveh,
                 ttr_weekly |-> ttr_weekly, wreset |-> wreset, name |-> name]
        fallback ==
            IF \/ ~st.fallback.set
               \/ fiveh > st.fallback.fiveh
               \/ (fiveh = st.fallback.fiveh /\ ttr_fiveh < st.fallback.ttr_fiveh)
            THEN [set |-> TRUE, fiveh |-> fiveh, ttr_fiveh |-> ttr_fiveh,
                  name |-> name]
            ELSE st.fallback
    IN IF name = "" THEN st
       ELSE IF refused THEN st
       ELSE IF weekly < 0 \/ fiveh < 0 THEN st
       ELSE IF fiveh <= fiveh_unusable_pct
       THEN [st EXCEPT !.fallback = fallback]
       ELSE IF ~st.best.set
               \/ DefaultReplaces(st.best, weekly, fiveh, ttr_weekly, wreset)
       THEN [best |-> mine, fallback |-> fallback]
       ELSE [st EXCEPT !.fallback = fallback]

RECURSIVE DefaultChooseLoop(_, _, _, _, _)
DefaultChooseLoop(st, candidates, now_ts, pct, unknown_ttr) ==
    IF candidates = <<>> THEN st
    ELSE DefaultChooseLoop(DefaultChooseStep(st, Head(candidates), now_ts,
                                             pct, unknown_ttr),
                           Tail(candidates), now_ts, pct, unknown_ttr)

DefaultChooseAccount(candidates, now_ts, pct, unknown_ttr) ==
    LET st == DefaultChooseLoop([best |-> NoBest, fallback |-> NoFallback],
                                candidates, now_ts, pct, unknown_ttr)
    IN IF st.best.set THEN st.best.name
       ELSE IF st.fallback.set THEN st.fallback.name
       ELSE NoName

\* What heuristic loading meets: whether CODEX_ACCOUNTS_HEURISTIC names a
\* file or a module, how loading that goes, whether the default module
\* codex_accounts_heuristic.py is there and how loading it goes. A load is
\* fine, finds no file or module, raises an Exception while the module runs,
\* finds a function that is not callable, or raises what is no Exception
\* (the module calls sys.exit()).
HeuristicEnv(override, load, default_exists, default_load) ==
    [override |-> override, load |-> load, default_exists |-> default_exists,
     default_load |-> default_load]
\* What loading leaves: a function, or an exception; die() is SystemExit
\* after a message.
Loaded(func) == [raised |-> FALSE, error |-> "", func |-> func]
LoadRaised(error) == [raised |-> TRUE, error |-> error, func |-> "none"]

\* _load_callable_from_file and _load_callable_from_module, by outcome.
LoadCallable(outcome, func) ==
    IF outcome = "ok" THEN Loaded(func)
    ELSE IF outcome = "exits" THEN LoadRaised("BaseException")
    ELSE LoadRaised("Exception")

\* load_heuristic of codex_accounts_heuristic_loader.py: no try.
LoadHeuristicModule(env) ==
    IF env.override # "none" THEN LoadCallable(env.load, "override")
    ELSE IF env.default_exists
    THEN LoadCallable(env.default_load, "default_module")
    ELSE Loaded("builtin")

\* load_heuristic of codex_accounts.py: an Exception of the override ends
\* in die(), one of the default module in the built-in algorithm.
OverrideFallsBack(r) == Loaded("builtin")
OverrideDies(r) ==
    IF r.raised /\ r.error = "Exception" THEN LoadRaised("die") ELSE r
LoadHeuristicCmd(env) ==
    IF env.override # "none"
    THEN OverrideDies(LoadCallable(env.load, "override"))
    ELSE LET r == IF env.default_exists
                  THEN LoadCallable(env.default_load, "default_module")
                  ELSE Loaded("builtin")
         IN IF r.raised /\ r.error = "Exception" THEN Loaded("builtin") ELSE r

LoadHeuristic(impl, env) ==
    IF impl = "modules" THEN LoadHeuristicModule(env) ELSE LoadHeuristicCmd(env)

\* The saved profiles in the order of sorted(glob("*.auth.json")); the file
\* ".auth.json" gives the empty name.
ProfileOrder == <<"", "a", "b">>
RECURSIVE AuthFiles(_, _)
AuthFiles(profiles, order) ==
    IF order = <<>> THEN <<>>
    ELSE IF Head(order) \in profiles
    THEN <<Head(order)>> \o AuthFiles(profiles, Tail(order))
    ELSE AuthFiles(profiles, Tail(order))

\* What fetch_usage_bulk returned for a profile: no entry, a failure, or a
\* result with remaining values and reset times.
NoEntry == [entry |-> FALSE, res |-> Failure("", 0, FALSE)]
Entry(res) == [entry |-> TRUE, res |-> res]
UsageResult(weekly, fiveh, wreset, freset) ==
    [ok |-> TRUE, reason |-> Reason("", 0), has_api_key |-> FALSE,
     primary |-> [used_percent |-> NoUsed, reset_at |-> freset],
     secondary |-> [used_percent |-> NoUsed, reset_at |-> wreset],
     fiveh_remaining |-> fiveh, weekly_remaining |-> weekly]

\* The candidates built from the results that are ok.
RECURSIVE BuildCandidates(_, _)
BuildCandidates(auth_files, results) ==
    IF auth_files = <<>> THEN <<>>
    ELSE LET name == Head(auth_files)
             r == results[name]
             rest == BuildCandidates(Tail(auth_files), results)
         IN IF ~r.entry \/ ~r.res.ok THEN rest
            ELSE <<Candidate(name, PyInt(r.res.weekly_remaining),
                             PyInt(r.res.fiveh_remaining),
                             PyInt(r.res.secondary.reset_at),
                             PyInt(r.res.primary.reset_at))>> \o rest

\* The name is one of the saved profiles.
AnyName(picked_name, profiles) == TRUE
ValidName(picked_name, profiles) == picked_name \in profiles

\* What the call of the heuristic gives: the override answers as it likes
\* (answer), the other two choose among the candidates.
Heuristic(func, answer, candidates, now_ts) ==
    IF func = "override" THEN answer
    ELSE [raises |-> FALSE,
          name |-> IF func = "default_module"
                   THEN ChooseAccount(candidates, now_ts,
                                      AUTO_SWITCH_FIVEH_UNUSABLE_PCT,
                                      UnknownResetTtr)
                   ELSE DefaultChooseAccount(candidates, now_ts,
                                             AUTO_SWITCH_FIVEH_UNUSABLE_PCT,
                                             UnknownResetTtr)]

\* pick_best_account_by_quota: the outcome, the name picked, the function
\* loaded, the name the heuristic gave and the number of candidates.
PickOutcome(raised, error, picked, func, heuristic, n) ==
    [raised |-> raised, error |-> error, picked |-> picked, func |-> func,
     heuristic |-> heuristic, candidates |-> n]
PickBestAccountByQuota(profiles, results, env, answer, now_ts) ==
    LET auth_files == AuthFiles(profiles, ProfileOrder)
        candidates == BuildCandidates(auth_files, results)
        loaded == LoadHeuristicCmd(env)
        picked == Heuristic(loaded.func, answer, candidates, now_ts)
        n == Len(candidates)
    IN IF auth_files = <<>> THEN PickOutcome(FALSE, "", NoName, "none", NoName, n)
       ELSE IF candidates = <<>>
       THEN PickOutcome(FALSE, "", NoName, "none", NoName, n)
       ELSE IF loaded.raised
       THEN PickOutcome(TRUE, loaded.error, NoName, "none", NoName, n)
       ELSE IF picked.raises
       THEN PickOutcome(TRUE, "Exception", NoName, loaded.func, NoName, n)
       ELSE IF picked.name = ""
       THEN PickOutcome(FALSE, "", NoName, loaded.func, picked.name, n)
       ELSE IF ~ValidName(picked.name, profiles)
       THEN PickOutcome(TRUE, "die", NoName, loaded.func, picked.name, n)
       ELSE PickOutcome(FALSE, "", picked.name, loaded.func, picked.name, n)

\* load_heuristic called by itself on the environment given.
LoadCall(p, impl) ==
    /\ pc[p] = "idle"
    /\ op' = [op EXCEPT ![p] = [NoOp EXCEPT !.kind = "load_heuristic",
                                            !.impl = impl]]
    /\ LET r == LoadHeuristic(impl, given.env)
       IN /\ pc' = [pc EXCEPT ![p] = IF r.raised THEN "raised" ELSE "returned"]
          /\ ret' = [ret EXCEPT ![p] =
                       [NoRet EXCEPT !.kind = "heuristic",
                                     !.map = PickOutcome(r.raised, r.error,
                                                         NoName, r.func, NoName, 0)]]
    /\ UNCHANGED <<confVars, site, after, lockVars, stateVars, envVars, cacheVars>>

\* The results a bulk fetch over the profiles can return.
PickQuotas == {<<-1, 60, 13, 13>>, <<90, 3, 13, 14>>, <<80, 50, 14, 0>>}
PickResults ==
    {NoEntry, Entry(Failure("http_failed", 0, FALSE))}
    \cup {Entry(UsageResult(q[1], q[2], q[3], q[4])) : q \in PickQuotas}

\* pick_best_account_by_quota called on the profiles, the environment and
\* the override's answer given; the bulk fetch returns what it likes.
PickCall(p) ==
    /\ pc[p] = "idle"
    /\ op' = [op EXCEPT ![p] = [NoOp EXCEPT !.kind = "pick_best_account_by_quota",
                                            !.impl = "monolith"]]
    /\ \E results \in [given.profiles -> PickResults] :
          LET r == PickBestAccountByQuota(given.profiles, results, given.env,
                                          given.answer, ChooseNow)
          IN /\ pc' = [pc EXCEPT ![p] = IF r.raised THEN "raised" ELSE "returned"]
             /\ ret' = [ret EXCEPT ![p] = [NoRet EXCEPT !.kind = "picked",
                                                        !.map = r]]
    /\ UNCHANGED <<confVars, site, after, lockVars, stateVars, envVars, cacheVars>>

LoadOutcomes == {"ok", "missing", "raises", "not_callable", "exits"}
HeuristicEnvs ==
    {HeuristicEnv("none", "ok", FALSE, "ok")}
    \cup {HeuristicEnv("none", "ok", TRUE, l) : l \in LoadOutcomes \ {"missing"}}
    \cup {HeuristicEnv(o, l, e, "ok") :
            o \in {"file", "module"}, l \in LoadOutcomes, e \in Bools}
Answers ==
    {[raises |-> TRUE, name |-> ""]}
    \cup {[raises |-> FALSE, name |-> n] : n \in {"", "a", "b", "zz"}}

InitPick ==
    /\ hasFcntl = TRUE
    /\ given \in [profiles : SUBSET {ProfileOrder[i] : i \in DOMAIN ProfileOrder},
                  env : HeuristicEnvs,
                  answer : Answers]
    /\ InitProcs

NextPick ==
    \/ LoadCall(1, "modules")
    \/ LoadCall(1, "monolith")
    \/ PickCall(1)
    \/ Reset(1)

SpecPick == InitPick /\ [][NextPick]_vars

\* ------------------------------------------------------------ file lock claims
\* What a save_state call of the run writes when nothing disturbs it.
StateOutputs == {StateContent(a[1], a[2]) : a \in SaveArgs}
\* What a save_state call leaves when a write of it fails: nothing, or the
\* first line.
StateCuts == {<<>>} \cup {StateLine1(a[1]) : a \in SaveArgs}

\* The statements of the with blocks, which read and write the guarded files.
ScopePcs ==
    {"save_open", "save_write1", "save_write2", "load_read",
     "cache_read", "cache_trunc", "cache_write"}
InScope(p, l) == pc[p] \in ScopePcs /\ LockOf(op[p]) = l
\* p is between taking and giving up the lock of a save_state.
InSaveSection(p) ==
    /\ op[p].kind = "save_state"
    /\ pc[p] \in ScopePcs \cup {"exit_unlock", "exit_close"}

\* C1 as stated, for every platform: whenever no save_state is inside its
\* locked section, the state file holds the output of one save_state call
\* (what a call whose write failed had written of it counted as such).
C1_AlwaysOneWrite ==
    (\A p \in Procs : ~InSaveSection(p)) /\ stateFile.exists
        => \/ stateFile.text \in StateOutputs
           \/ torn /\ stateFile.text \in StateCuts

\* C1, with process-level locking available: whenever no save_state is inside
\* its locked section, the state file holds the complete output of one
\* save_state call, or, after a write that failed, what that call had written
\* till then; never bytes of two calls.
C1_OneWriteUnderFlock ==
    hasFcntl /\ (\A p \in Procs : ~InSaveSection(p)) /\ stateFile.exists
        => \/ stateFile.text \in StateOutputs
           \/ torn /\ stateFile.text \in StateCuts

\* Two save_state calls with different arguments have both returned and the
\* file holds what one of them wrote.
C1_Witness ==
    /\ hasFcntl
    /\ \A p \in Procs : pc[p] = "returned" /\ op[p].kind = "save_state"
    /\ \E p, q \in Procs : op[p].cur # op[q].cur
    /\ stateFile.exists
    /\ stateFile.text \in StateOutputs

\* C2: with flock at hand no two processes are inside the with block of a
\* FileLock of the same lock file at one time, however many processes run.
C2_MutualExclusion ==
    hasFcntl => \A l \in Locks : Cardinality({p \in Procs : InScope(p, l)}) <= 1

\* One process is inside the with block while another, its handle open,
\* waits in flock for the same lock file.
C2_Witness ==
    /\ hasFcntl
    /\ \E p, q \in Procs :
         /\ p # q
         /\ InScope(p, "state")
         /\ p \in flockHeld["state"]
         /\ pc[q] = "enter_flock"
         /\ fh[q] = "state"

\* C3: an operation that went through FileLock and is over, by return or by
\* exception, has no handle of a lock file open and holds no flock, its
\* __exit__ ran at most once, and once when it returned from inside the with
\* block on a cache hit.
C3_ReleasedOnce ==
    \A p \in Procs :
        pc[p] \in {"returned", "raised"} /\ UsesLock(op[p])
            => /\ fh[p] = "none"
               /\ leaked[p] = {}
               /\ \A l \in Locks : p \notin flockHeld[l]
               /\ nexit[p] <= 1
               /\ (pc[p] = "returned" /\ bulk[p].hit => nexit[p] = 1)

\* C4: whoever is at a statement that reads or writes the state file or the
\* cache file has the FileLock of that file's lock file open and, with flock
\* at hand, holds it.
C4_AccessUnderLock ==
    \A p \in Procs :
        pc[p] \in ScopePcs
            => /\ fh[p] = LockOf(op[p])
               /\ (hasFcntl => p \in flockHeld[LockOf(op[p])])

\* ------------------------------------------------------------ cache claims
IsBulk(p) == op[p].kind = "fetch_usage_bulk" /\ op[p].paths # <<>>
PathSet(o) == {o.paths[i] : i \in 1..Len(o.paths)}
\* An entry whose fields have the types of the entries the program writes.
WellFormed(val) ==
    /\ val.kind = "object"
    /\ val.fetched_at.t = "num"
    /\ val.paths.t = "list"
    /\ val.url.t = "str"
    /\ val.auth_fingerprints.t = "list"
    /\ val.results.t = "dict"
\* The entry p read is young enough and is of p's paths, URL and fingerprints.
Matches(p) ==
    LET v == bulk[p].readc
    IN /\ op[p].ttl > 0
       /\ bulk[p].tread - v.fetched_at.n <= op[p].ttl
       /\ v.paths = JList(op[p].paths)
       /\ v.url = JStr(bulk[p].url)
       /\ v.auth_fingerprints = JList(Fingerprints(op[p].paths, bulk[p].stats))
\* p's request is the one of the fetch before it.
SameRequest(p) ==
    /\ prev[p].entry.paths = JList(op[p].paths)
    /\ prev[p].entry.url = JStr(bulk[p].url)

\* C5: a bulk fetch whose read of the cache gave an entry (or nothing that
\* parses) takes the cached results if and only if the TTL is positive, the
\* entry is no older than the TTL and its paths, URL and fingerprints are the
\* request's; it consults the cache only with a positive TTL; and it returns
\* with no fetcher call and the entry's results on a hit, and else with one
\* fetcher call a path and the results of these calls.
C5_HitIffMatch ==
    \A p \in Procs :
        /\ (bulk[p].hit => bulk[p].looked /\ op[p].ttl > 0)
        /\ (bulk[p].looked /\ (bulk[p].readc.kind = "object" => WellFormed(bulk[p].readc))
              => (bulk[p].hit <=> bulk[p].readc.kind = "object" /\ Matches(p)))
        /\ (pc[p] = "returned" /\ IsBulk(p)
              => IF bulk[p].hit
                 THEN bulk[p].ncalls = 0 /\ ret[p].map = bulk[p].readc.results.d
                 ELSE bulk[p].ncalls = Len(op[p].paths) /\ ret[p].map = bulk[p].results)

\* A fetch has returned the results of an entry that matched, with no
\* fetcher call.
C5_Witness ==
    \E p \in Procs :
        /\ pc[p] = "returned" /\ IsBulk(p)
        /\ bulk[p].hit /\ Matches(p) /\ WellFormed(bulk[p].readc)
        /\ bulk[p].ncalls = 0
        /\ ret[p].map # EmptyMap

\* C6: when the fetch before missed and wrote its entry, and this fetch has
\* the same paths, URL and fingerprints, a positive TTL, and finds that entry
\* no older than the TTL, then it reads it as a hit, makes no fetcher call
\* and returns the mapping the fetch before returned; it goes on to fetch
\* only when its read of the file failed.
C6_RoundTrip ==
    \A p \in Procs :
        IsBulk(p) /\ prev[p].wrote /\ SameRequest(p) /\ prev[p].stats = bulk[p].stats
        /\ op[p].ttl > 0
            => /\ (bulk[p].looked /\ bulk[p].readc = prev[p].entry
                   /\ bulk[p].tread - prev[p].entry.fetched_at.n <= op[p].ttl
                     => /\ bulk[p].hit
                        /\ bulk[p].ncalls = 0
                        /\ (pc[p] = "returned" => ret[p].map = prev[p].entry.results.d))
               /\ (pc[p] = "submit" /\ cacheFile.exists /\ cacheFile.val = prev[p].entry
                   /\ now - prev[p].entry.fetched_at.n <= op[p].ttl
                     => bulk[p].looked /\ bulk[p].readc = Garbage)

\* The second of two like fetches has returned the first one's mapping, which
\* is not empty, without a fetcher call.
C6_Witness ==
    \E p \in Procs :
        /\ pc[p] = "returned" /\ IsBulk(p)
        /\ prev[p].wrote /\ SameRequest(p) /\ prev[p].stats = bulk[p].stats
        /\ bulk[p].readc = prev[p].entry
        /\ bulk[p].hit /\ bulk[p].ncalls = 0
        /\ ret[p].map = prev[p].entry.results.d
        /\ ret[p].map # EmptyMap

\* C7: when the fetch before wrote its entry and this fetch has the same
\* paths and URL but stat() of one of its files gives something else than
\* it gave then, this fetch, reading that entry, does not take it as a hit.
C7_ChangeInvalidates ==
    \A p \in Procs :
        IsBulk(p) /\ prev[p].wrote /\ SameRequest(p) /\ prev[p].stats # bulk[p].stats
        /\ bulk[p].looked /\ bulk[p].readc = prev[p].entry
            => ~bulk[p].hit

\* Content that is no entry: text that is not JSON, JSON that is no object,
\* an object with a field of a wrong type or with results that are no mapping.
Malformed(val) == ~WellFormed(val)

\* C8: a bulk fetch that read malformed content does not take it as a hit
\* and does not raise: it goes on to fetch.
C8_MalformedIsMiss ==
    \A p \in Procs :
        IsBulk(p) /\ bulk[p].looked /\ Malformed(bulk[p].readc)
            => ~bulk[p].hit /\ pc[p] # "raised"

\* C9: the mapping a bulk fetch returns on a miss has an entry for every
\* path it was given.
C9_EveryPathHasEntry ==
    \A p \in Procs :
        pc[p] = "returned" /\ IsBulk(p) /\ ~bulk[p].hit
            => DOMAIN ret[p].map = PathSet(op[p])

\* ------------------------------------------------------------ fetcher claims
\* C10: a fetcher call that is over has returned, and its result has ok, or
\* a reason.
C10_NeverRaises ==
    \A p \in Procs :
        op[p].kind = "fetch_usage_for_auth" /\ pc[p] \in {"returned", "raised"}
            => /\ pc[p] = "returned"
               /\ (ret[p].map["result"].ok \/ ret[p].map["result"].reason.r # "")

\* The reason the failure classes give, in their order: the credential file
\* is missing; it cannot be read or is malformed (no JSON, or JSON that is
\* no object or has tokens that are none); it has no access token; the
\* endpoint answers an error status; the transport fails; the body is no
\* JSON or is malformed (no object, or a rate_limit that is none).
ReasonOfClass(auth, resp) ==
    IF auth.file = "missing" THEN Reason("auth_missing", 0)
    ELSE IF auth.file # "json" \/ auth.top # "object" \/ auth.tokens = "other"
    THEN Reason("auth_read_failed", 0)
    ELSE IF auth.tokens = "falsy" \/ ~auth.access_token
    THEN Reason("no_access_token", 0)
    ELSE IF resp.net = "http_error" THEN Reason("http", resp.code)
    ELSE IF resp.net = "failed" THEN Reason("http_failed", 0)
    ELSE IF resp.body # "json" \/ resp.top # "object" \/ resp.rate_limit = "other"
    THEN Reason("payload_parse_failed", 0)
    ELSE Reason("", 0)

\* C11: a fetcher call that is over has returned the reason of the first
\* failure class its input is of, with ok only when it is of none; for
\* no_access_token, has_api_key says an API key is there and no request was
\* made.
C11_ReasonByClass ==
    \A p \in Procs :
        op[p].kind = "fetch_usage_for_auth" /\ pc[p] \in {"returned", "raised"}
            => /\ pc[p] = "returned"
               /\ LET res == ret[p].map["result"]
                      want == ReasonOfClass(given.auth, given.resp)
                  IN /\ res.reason = want
                     /\ (res.ok <=> want.r = "")
                     /\ (want.r = "no_access_token"
                           => res.has_api_key = given.auth.api_key
                              /\ ~ret[p].map["requested"])

\* ------------------------------------------------------------ selection claims
\* The call of choose_account is over; what it returned; the candidates it got.
Chose == op[1].kind = "choose_account" /\ pc[1] = "returned"
Picked == ret[1].map["picked"]
Given == {given.candidates[i] : i \in DOMAIN given.candidates}

\* What the ranking reads of a candidate.
Weekly(c) == ToInt(c.weekly_remaining, -1)
Fiveh(c) == ToInt(c.fiveh_remaining, -1)
WReset(c) == ToInt(c.weekly_reset_at, 0)
FReset(c) == ToInt(c.fiveh_reset_at, 0)
TtrWeekly(c) ==
    IF WReset(c) > 0 THEN Max(1, WReset(c) - given.now_ts)
    ELSE given.unknown_reset_ttr_sec
TtrFiveh(c) ==
    IF FReset(c) > 0 THEN Max(1, FReset(c) - given.now_ts)
    ELSE given.unknown_reset_ttr_sec
\* A named candidate with known weekly and 5-hour remaining, and one of them
\* above the unusable threshold.
Ranked(c) == c.name # "" /\ Weekly(c) >= 0 /\ Fiveh(c) >= 0
Eligible(c) == Ranked(c) /\ Fiveh(c) > given.fiveh_unusable_pct
\* x comes before y in the lexicographic order of the primary ranking.
Outranks(x, y) ==
    LET lhs == Weekly(x) * TtrWeekly(y)
        rhs == Weekly(y) * TtrWeekly(x)
    IN \/ lhs > rhs
       \/ lhs = rhs /\ Weekly(x) > Weekly(y)
       \/ lhs = rhs /\ Weekly(x) = Weekly(y) /\ Fiveh(x) > Fiveh(y)
       \/ /\ lhs = rhs /\ Weekly(x) = Weekly(y) /\ Fiveh(x) = Fiveh(y)
          /\ WReset(x) # 0
          /\ (WReset(y) = 0 \/ WReset(x) < WReset(y))

\* C12: when some candidate has known weekly and 5-hour remaining and 5-hour
\* remaining above the threshold, choose_account returns the name of such a
\* candidate that no other such candidate outranks (urgency ratio by cross
\* multiplication, then weekly remaining, then 5-hour remaining, then earlier
\* non-zero weekly reset).
C12_PrimaryMaximal ==
    Chose /\ (\E c \in Given : Eligible(c))
        => \E c \in Given :
              /\ Eligible(c)
              /\ c.name = Picked
              /\ \A y \in Given : Eligible(y) => ~Outranks(y, c)

\* Three candidates of the primary ranking, the last of which wins over the
\* first by the earlier weekly reset alone.
C12_Witness ==
    /\ Chose
    /\ Len(given.candidates) = 3
    /\ \A c \in Given : Eligible(c)
    /\ LET x == given.candidates[1]
           y == given.candidates[3]
       IN /\ y.name = Picked
          /\ Weekly(x) * TtrWeekly(y) = Weekly(y) * TtrWeekly(x)
          /\ Weekly(x) = Weekly(y) /\ Fiveh(x) = Fiveh(y)
          /\ WReset(x) # 0 /\ WReset(y) < WReset(x)

\* C13: when some candidate with known remaining values is above the 5-hour
\* threshold, the candidate returned is above it too.
C13_UnusableNeverChosen ==
    Chose /\ (\E c \in Given : Eligible(c))
        => /\ Picked # NoName
           /\ \A c \in Given :
                 c.name = Picked => Fiveh(c) > given.fiveh_unusable_pct

\* A candidate at or below the threshold outranks every usable one by weekly
\* urgency and is passed over.
C13_Witness ==
    /\ Chose
    /\ \E x \in Given :
          /\ Ranked(x) /\ ~Eligible(x)
          /\ x.name # Picked
          /\ \E c \in Given : Eligible(c)
          /\ \A c \in Given : Eligible(c) => Outranks(x, c)

\* C14: when every candidate is at or below the 5-hour threshold and some
\* candidate has known remaining values, choose_account returns the name of
\* a known candidate of the most 5-hour remaining and, among those, of the
\* least time to the 5-hour reset; it does not return none.
C14_Fallback ==
    /\ Chose
    /\ \A c \in Given : Fiveh(c) <= given.fiveh_unusable_pct
    /\ \E c \in Given : Ranked(c)
    => /\ Picked # NoName
       /\ \E c \in Given :
             /\ Ranked(c)
             /\ c.name = Picked
             /\ \A y \in Given :
                   Ranked(y) => /\ Fiveh(y) <= Fiveh(c)
                                /\ Fiveh(y) = Fiveh(c)
                                     => TtrFiveh(c) <= TtrFiveh(y)

\* The fallback goes to the later of two candidates of equal 5-hour
\* remaining by its nearer reset, past a candidate of unknown weekly
\* remaining.
C14_Witness ==
    /\ Chose
    /\ Len(given.candidates) = 3
    /\ \A c \in Given : Fiveh(c) <= given.fiveh_unusable_pct
    /\ \E c \in Given : ~Ranked(c) /\ c.name # ""
    /\ \E i, j \in DOMAIN given.candidates :
          LET x == given.candidates[i]
              y == given.candidates[j]
          IN /\ i < j
             /\ Ranked(x) /\ Ranked(y)
             /\ Fiveh(x) = Fiveh(y) /\ TtrFiveh(y) < TtrFiveh(x)
             /\ y.name = Picked

\* The candidate list in another order.
Orders(n) == {f \in [1..n -> 1..n] : \A i, j \in 1..n : f[i] = f[j] => i = j}
Permuted(l, f) == [i \in DOMAIN l |-> l[f[i]]]

\* C15: choose_account returns the same name for every order of the
\* candidate list.
C15_OrderIndependent ==
    Chose
        => \A f \in Orders(Len(given.candidates)) :
              ChooseAccount(Permuted(given.candidates, f), given.now_ts,
                            given.fiveh_unusable_pct,
                            given.unknown_reset_ttr_sec) = Picked

\* C16: choose_account returns none for the empty list and for a list in
\* which every weekly remaining is -1.
C16_NoneWhenUnknown ==
    Chose /\ (\A c \in Given : Weekly(c) = -1) => Picked = NoName

\* A list of candidates without weekly remaining, one of them with 5-hour
\* remaining above the threshold and reset times, gives none.
C16_Witness ==
    /\ Chose
    /\ Len(given.candidates) >= 2
    /\ \A c \in Given : Weekly(c) = -1
    /\ \E c \in Given :
          /\ c.name # ""
          /\ Fiveh(c) > given.fiveh_unusable_pct
          /\ WReset(c) > 0
    /\ Picked = NoName

\* ------------------------------------------------------------ heuristic loading claims
\* A call of load_heuristic, of pick_best_account_by_quota is over.
LoadOver == op[1].kind = "load_heuristic" /\ pc[1] \in {"returned", "raised"}
PickOver ==
    op[1].kind = "pick_best_account_by_quota" /\ pc[1] \in {"returned", "raised"}
\* An override is configured and its loading fails.
OverrideFails == given.env.override # "none" /\ given.env.load # "ok"

\* C17: with an override configured that cannot be loaded, load_heuristic of
\* either implementation ends in an error and yields no function;
\* pick_best_account_by_quota then gets no function and returns no name, and
\* ends in an error when it has candidates to rank.
C17_OverrideFailureAborts ==
    /\ LoadOver /\ OverrideFails
         => pc[1] = "raised" /\ ret[1].map.func = "none"
    /\ PickOver /\ OverrideFails
         => /\ ret[1].map.func = "none" /\ ret[1].map.picked = NoName
            /\ ret[1].map.candidates > 0 => pc[1] = "raised"

\* The commands' load_heuristic dies on an override that raises while the
\* default module is there.
C17_Witness ==
    /\ LoadOver
    /\ op[1].impl = "monolith"
    /\ given.env.override = "file" /\ given.env.load = "raises"
    /\ given.env.default_exists
    /\ pc[1] = "raised" /\ ret[1].map.error = "die"

\* C18: with no override configured load_heuristic returns a function and
\* raises nothing; the function is the built-in algorithm when the default
\* module is absent or its loading fails.
C18_DefaultAlwaysUsable ==
    LoadOver /\ given.env.override = "none"
        => /\ pc[1] = "returned"
           /\ ret[1].map.func \in {"default_module", "builtin"}
           /\ (~given.env.default_exists \/ given.env.default_load # "ok")
                => ret[1].map.func = "builtin"

\* C19: a name pick_best_account_by_quota returns is the name of a saved
\* profile, and a non-empty name of the heuristic that is none ends the call
\* in die().
C19_PickedIsSaved ==
    PickOver
        => /\ pc[1] = "returned" /\ ret[1].map.picked # NoName
                => ret[1].map.picked \in given.profiles
           /\ ret[1].map.heuristic # "" /\ ret[1].map.heuristic \notin given.profiles
                => pc[1] = "raised" /\ ret[1].map.error = "die"

\* An override names a profile that is not saved, beside saved ones, and the
\* call dies.
C19_Witness ==
    /\ PickOver
    /\ ret[1].map.func = "override"
    /\ ret[1].map.heuristic = "b"
    /\ given.profiles = {"a"}
    /\ pc[1] = "raised" /\ ret[1].map.error = "die"

\* ------------------------------------------------------------ state load claims
\* C20: a load_state call that is over has returned a pair of names and
\* raised nothing, whatever happened to the state file and to the lock.
C20_LoadNeverFails ==
    \A p \in Procs :
        op[p].kind = "load_state" /\ pc[p] \in {"returned", "raised"}
            => pc[p] = "returned" /\ ret[p].kind = "state"

\* ------------------------------------------------------------ state round trip
\* save_state followed by load_state with nothing written in between: what
\* load_state reads is what save_state wrote.
MaxName == 2
NameChars == {"a", SP, SQ, DQ, EQ, NL, BS}
StateNames == UNION {[1..n -> NameChars] : n \in 0..MaxName}

RoundTripCall(p) ==
    /\ pc[p] = "idle"
    /\ op' = [op EXCEPT ![p] = [NoOp EXCEPT !.kind = "save_then_load",
                                            !.cur = given.cur,
                                            !.prev = given.prev]]
    /\ pc' = [pc EXCEPT ![p] = "returned"]
    /\ ret' = [ret EXCEPT ![p] =
                 StateRet(ParseState(StateContent(given.cur, given.prev)))]
    /\ UNCHANGED <<confVars, site, after, lockVars, stateVars, envVars, cacheVars>>

InitRound ==
    /\ hasFcntl = TRUE
    /\ given \in [cur : StateNames, prev : StateNames]
    /\ InitProcs

NextRound == RoundTripCall(1) \/ Reset(1)

SpecRound == InitRound /\ [][NextRound]_vars

\* C21: load_state after save_state(current, previous) returns exactly
\* (current, previous), for every pair of names.
C21_StateRoundTrip ==
    op[1].kind = "save_then_load" /\ pc[1] = "returned"
        => ret[1].cur = given.cur /\ ret[1].prev = given.prev

\* ------------------------------------------------------------ remaining percent
\* used_percent values in half units: from MaxOver half units below 0 to
\* MaxOver half units above 100, and the values that are no finite number.
MaxOver == 5
RemainingUseds ==
    {NoUsed, [t |-> "bad", n2 |-> 0], [t |-> "nan", n2 |-> 0]}
    \cup {[t |-> "num", n2 |-> n] : n \in (0 - MaxOver)..(200 + MaxOver)}

\* _remaining_percent called by itself on the used_percent of the primary
\* window given.
RemainingCall(p) ==
    /\ pc[p] = "idle"
    /\ op' = [op EXCEPT ![p] =
                [NoOp EXCEPT !.kind = "remaining_percent", !.impl = "modules"]]
    /\ LET r == RemainingPercent(given.resp.primary.used)
       IN /\ pc' = [pc EXCEPT ![p] = IF r.raised THEN "raised" ELSE "returned"]
          /\ ret' = [ret EXCEPT ![p] =
                       [NoRet EXCEPT !.kind = "remaining",
                                     !.map = [x \in {"remaining"} |-> r.v]]]
    /\ UNCHANGED <<site, after>>
    /\ UNCHANGED <<confVars, lockVars, stateVars, envVars, cacheVars>>

InitRemaining ==
    /\ hasFcntl = TRUE
    /\ given \in [auth : {OkAuth},
                  resp : {Response("ok", 200, "json", "object", "dict",
                                   Window(TRUE, u1, [t |-> "int", n |-> 9]),
                                   Window(TRUE, u2, [t |-> "int", n |-> 0])) :
                            u1 \in RemainingUseds,
                            u2 \in {NoUsed, [t |-> "num", n2 |-> 75]}}]
    /\ InitProcs

NextRemaining == RemainingCall(1) \/ FetchCall(1) \/ Reset(1)

SpecRemaining == InitRemaining /\ [][NextRemaining]_vars

\* 100 - u cut to 0..100, in half units, and what it is to be its rounded
\* value: the nearest whole number, the even one of two equally near.
Clamped2(used) == Max(0, Min(200, 200 - used.n2))
IsRounded(v, x2) ==
    /\ v \in 0..100
    /\ 2 * v - x2 \in {-1, 0, 1}
    /\ 2 * v - x2 # 0 => v % 2 = 0
\* v is the remaining of used_percent used.
IsRemaining(v, used) ==
    IF used.t \in {"none", "bad"} THEN v = -1
    ELSE used.t = "num" /\ IsRounded(v, Clamped2(used))

\* C22: for every used_percent the remaining computed is the rounded value
\* of 100 - u cut to 0..100, or -1 when there is no used_percent; the two
\* remaining values of a fetcher result are such values.
C22_RemainingInRange ==
    /\ op[1].kind = "remaining_percent" /\ pc[1] \in {"returned", "raised"}
         => /\ pc[1] = "returned"
            /\ IsRemaining(ret[1].map["remaining"], given.resp.primary.used)
    /\ op[1].kind = "fetch_usage_for_auth" /\ pc[1] \in {"returned", "raised"}
         => /\ pc[1] = "returned"
            /\ IsRemaining(ret[1].map["result"].fiveh_remaining,
                           given.resp.primary.used)
            /\ IsRemaining(ret[1].map["result"].weekly_remaining,
                           given.resp.secondary.used)

\* ------------------------------------------------------------ processes side by side
\* Processes that call fetch_usage_bulk of codex_accounts_usage.py and the
\* state store of codex_accounts_state.py at the same time, over one
\* credential file, with the cache in use.
InitShare ==
    /\ hasFcntl = TRUE
    /\ given = [auth |-> OkAuth, resp |-> OkResponse]
    /\ InitProcs

ShareStep(p) ==
    \/ calls < MaxCalls /\ StartBulk(p, BulkOp("modules", <<"p1">>, MaxTTL, 2))
    \/ BulkStep(p)
    \/ StoreStep(p)
    \/ LockStep(p)

NextShare == \E p \in Procs : ShareStep(p)

SpecShare == InitShare /\ [][NextShare]_vars

\* ------------------------------------------------------------ sharing claims
\* The fetcher calls of p that are in flight.
InFlight(p) == IF pc[p] = "pool" THEN Running(bulk[p]) ELSE {}

\* C23: a process between the read-through and the write-back of a bulk
\* fetch, where its fetcher calls are made, holds no lock and has no lock
\* file open.
C23_NoLockAcrossFetch ==
    \A p \in Procs :
        pc[p] \in {"submit", "pool"}
            => /\ fh[p] = "none"
               /\ \A l \in Locks : p \notin flockHeld[l]

\* Two processes that missed the cache have fetcher calls in flight at the
\* same time.
C23_Witness ==
    /\ InFlight(1) # {} /\ InFlight(2) # {}
    /\ op[1].ttl > 0 /\ op[2].ttl > 0

Concs == {-1, 0, 1, 2, 3}

\* An answer whose used_percent is NaN: the fetcher call raises on it.
NanResponse ==
    Response("ok", 200, "json", "object", "dict",
             Window(TRUE, [t |-> "nan", n2 |-> 0], [t |-> "int", n |-> 9]),
             Window(TRUE, [t |-> "num", n2 |-> 120], [t |-> "int", n |-> 0]))

PoolInputs ==
    {<<AuthShape("missing", "other", "falsy", FALSE, FALSE, FALSE), OkResponse>>,
     <<OkAuth, OkResponse>>,
     <<OkAuth, NanResponse>>}

InitPool ==
    /\ hasFcntl = TRUE
    /\ given = [auth |-> OkAuth, resp |-> OkResponse]
    /\ InitProcs

PoolStep(p) ==
    \/ CacheRead(p)
    \/ Submit(p)
    \/ \E i \in 1..2 : TaskStart(p, i)
    \/ \E i \in 1..2, x \in PoolInputs : TaskFinish(p, i, x[1], x[2])
    \/ \E i \in 1..2 : Collect(p, i)
    \/ PoolExit(p)
    \/ CacheTrunc(p)
    \/ CacheWrite(p)

NextPool ==
    \/ /\ calls < MaxCalls
       /\ \E paths \in PathLists, conc \in Concs :
            StartBulk(1, BulkOp("modules", paths, MaxTTL, conc))
    \/ PoolStep(1)
    \/ LockStep(1)
    \/ Reset(1)

SpecPool == InitPool /\ [][NextPool]_vars

\* ------------------------------------------------------------ pool claims
\* max(1, min(N, len(P))) written out.
InFlightBound(o) ==
    IF o.conc < 1 THEN 1
    ELSE IF o.conc < Len(o.paths) THEN o.conc
    ELSE Len(o.paths)

\* The futures whose task was begun.
Begun(b) == {i \in 1..Len(b.futs) : b.futs[i].st # "queued"}

\* C25: on a miss there is one future a path, each task calls the fetcher
\* once, all have by the time the pool is left, and the calls in flight are
\* never more than max(1, min(N, len(P))), also for N of zero or less.
C25_BoundedInFlight ==
    /\ pc[1] = "pool"
          => /\ Len(bulk[1].futs) = Len(op[1].paths)
             /\ bulk[1].ncalls = Cardinality(Begun(bulk[1]))
             /\ Cardinality(Running(bulk[1])) <= InFlightBound(op[1])
    /\ pc[1] \in {"returned", "raised"} /\ bulk[1].futs # <<>>
          => bulk[1].ncalls = Len(op[1].paths)

\* With a bound of zero or less and two paths, one call is in flight and the
\* other waits for the worker.
C25_Witness ==
    /\ pc[1] = "pool"
    /\ op[1].conc < 1
    /\ Len(op[1].paths) = 2
    /\ bulk[1].futs[1].st = "running"
    /\ bulk[1].futs[2].st = "queued"

\* The mapping made of the outcomes of the futures S by themselves: a key for
\* each path whose task did not raise, with what that task returned.
Gathered(o, b, S) ==
    LET kept == {i \in S : ~b.futs[i].raised}
        at(k) == CHOOSE i \in kept : o.paths[i] = k
    IN [k \in {o.paths[i] : i \in kept} |-> b.futs[at(k)].res]

Collected(b) == {i \in 1..Len(b.futs) : b.futs[i].st = "collected"}

\* C26: whatever the order the tasks end and are collected in, results holds
\* for each collected path what its own task returned, and the mapping handed
\* back after a miss is the one made of all the tasks' outcomes.
C26_OrderIndependent ==
    /\ pc[1] = "pool"
          => bulk[1].results = Gathered(op[1], bulk[1], Collected(bulk[1]))
    /\ bulk[1].futs # <<>> /\ ret[1].kind = "results"
          => ret[1].map = Gathered(op[1], bulk[1], 1..Len(bulk[1].futs))

\* The second path's call has ended and its result is in the mapping while
\* the first path's call, begun before it, is still in flight; the two end
\* differently.
C26_Witness ==
    /\ pc[1] = "pool"
    /\ Len(bulk[1].futs) = 2
    /\ bulk[1].futs[1].st = "running"
    /\ bulk[1].futs[2].st = "collected"
    /\ ~bulk[1].futs[2].raised
    /\ op[1].paths[2] \in DOMAIN bulk[1].results

\* ------------------------------------------------------------ pool, fair
\* The same runs where what can go on does: the process is scheduled, a
\* worker that is free takes a queued task, and every fetcher call ends (the
\* request has a timeout).
PoolFair ==
    /\ WF_vars(PoolStep(1))
    /\ WF_vars(LockStep(1))
    /\ \A i \in 1..2 : WF_vars(\E x \in PoolInputs : TaskFinish(1, i, x[1], x[2]))

SpecPoolFair == InitPool /\ [][NextPool]_vars /\ PoolFair

\* A bulk fetch that missed is over, by return or by an exception.
PoolOver == pc[1] \in {"returned", "raised"} /\ bulk[1].futs # <<>>

\* Every bulk fetch that reaches the pool ends, and each of its fetcher calls
\* ends whatever the other does.
PoolEnds ==
    /\ (pc[1] = "pool") ~> PoolOver
    /\ \A i \in 1..2 :
          (pc[1] = "pool" /\ i \in Running(bulk[1]))
              ~> (pc[1] = "pool" /\ i \in 1..Len(bulk[1].futs)
                  /\ bulk[1].futs[i].st = "finished")

\* C27: a bulk fetch that missed and whose fetcher calls have all ended
\* returns: it does not end by raising.
C27_MissReturns == PoolOver => pc[1] = "returned"

\* C28: a bulk fetch that missed ends by returning the mapping of the
\* fetched results, whether or not the write-back put the entry in the cache
\* file, and also when the cache lock file could not be made or taken.
C28_WriteBackSwallowed ==
    PoolOver /\ op[1].ttl > 0
        => /\ pc[1] = "returned"
           /\ ret[1].kind = "results"
           /\ ret[1].map = bulk[1].results

\* ------------------------------------------------------------ two algorithms
\* choose_account of codex_accounts_heuristic.py and _default_choose_account
\* of codex_accounts.py called on the same candidates, time and tunables.
\* Besides the values of the selection runs a candidate can hold a word as a
\* reset time.
SameQuotas == Quotas \cup {<<PyInt(80), PyInt(60), PyBad, PyInt(0)>>}
SameCandidates ==
    {Candidate(n, q[1], q[2], q[3], q[4]) : n \in Names, q \in SameQuotas}
    \cup {Candidate("", PyInt(90), PyInt(90), PyInt(13), PyInt(13))}
SameLists ==
    UNION {{l \in [1..n -> SameCandidates] : DistinctNames(l)} : n \in 0..MaxCands}
SameNows == {ChooseNow, ChooseNow + 2}
SamePcts == {AUTO_SWITCH_FIVEH_UNUSABLE_PCT, 10 * AUTO_SWITCH_FIVEH_UNUSABLE_PCT}

SameCall(p) ==
    /\ pc[p] = "idle"
    /\ op' = [op EXCEPT ![p] = [NoOp EXCEPT !.kind = "choose_both"]]
    /\ pc' = [pc EXCEPT ![p] = "returned"]
    /\ ret' = [ret EXCEPT ![p] =
                 [NoRet EXCEPT
                    !.kind = "picked",
                    !.map = [x \in {"module", "builtin"} |->
                               IF x = "module"
                               THEN ChooseAccount(given.candidates, given.now_ts,
                                                  given.fiveh_unusable_pct,
                                                  given.unknown_reset_ttr_sec)
                               ELSE DefaultChooseAccount(given.candidates,
                                                         given.now_ts,
                                                         given.fiveh_unusable_pct,
                                                         given.unknown_reset_ttr_sec)]]]
    /\ UNCHANGED <<confVars, site, after, lockVars, stateVars, envVars, cacheVars>>

InitSame ==
    /\ hasFcntl = TRUE
    /\ given \in [candidates : SameLists,
                  now_ts : SameNows,
                  fiveh_unusable_pct : SamePcts,
                  unknown_reset_ttr_sec : {UnknownResetTtr}]
    /\ InitProcs

NextSame == SameCall(1) \/ Reset(1)

SpecSame == InitSame /\ [][NextSame]_vars

\* The four quota fields of every candidate are integers.
AllInts(l) ==
    \A i \in DOMAIN l :
        /\ l[i].weekly_remaining.t = "int" /\ l[i].fiveh_remaining.t = "int"
        /\ l[i].weekly_reset_at.t = "int" /\ l[i].fiveh_reset_at.t = "int"

SameOver == pc[1] = "returned" /\ op[1].kind = "choose_both"

\* C29: on candidates whose remaining values and reset times are all
\* integers the built-in algorithm and the default heuristic module return
\* the same name, or both none.
C29_SameChoice ==
    SameOver /\ AllInts(given.candidates)
        => ret[1].map["builtin"] = ret[1].map["module"]

\* Three candidates of integer fields where both pick the third: it has the
\* remaining values of the one before it and is ahead by a tie break.
C29_Witness ==
    /\ SameOver /\ AllInts(given.candidates)
    /\ Len(given.candidates) = 3
    /\ given.candidates[3].name # ""
    /\ ret[1].map["builtin"] = given.candidates[3].name
    /\ ret[1].map["module"] = given.candidates[3].name
    /\ given.candidates[2].weekly_remaining = given.candidates[3].weekly_remaining
    /\ given.candidates[2].fiveh_remaining = given.candidates[3].fiveh_remaining

\* ------------------------------------------------------------ commands
\* cmd_save and cmd_switch of codex_accounts.py, each run alone from start
\* to end, one after another, with logins to codex in between.  A state
\* file that cannot be read loads like one without a key line.
CmdLoad(f) ==
    IF f.exists THEN ParseState(f.text) ELSE [cur |-> <<>>, prev |-> <<>>]
CmdSaveState(cur, previous) == [exists |-> TRUE, text |-> StateContent(cur, previous)]

HasIdentity(id) == id \notin {Absent, ""}

\* What a step of a command leaves: die() or not, the files, and the local
\* current.
Step(died, f, h, current) ==
    [died |-> died, refused |-> FALSE, file |-> f, home |-> h, current |-> current]

\* die() of backup_current_to, lines 554-558: the copy is refused.
Refuse(f, h, name) == [Step(TRUE, f, h, name) EXCEPT !.refused = TRUE]

\* A backup that copies over whatever is saved under the name.
BackupUnchecked(f, h, name) ==
    IF h.auth = Absent THEN Step(TRUE, f, h, name)
    ELSE Step(FALSE, f, [h EXCEPT !.saved[name] = h.auth], name)

\* backup_current_to, lines 547-563
BackupCurrentTo(f, h, name) ==
    IF h.auth = Absent THEN Step(TRUE, f, h, name)
    ELSE IF /\ h.saved[name] # Absent
            /\ HasIdentity(h.auth) /\ HasIdentity(h.saved[name])
            /\ h.auth # h.saved[name]
    THEN Refuse(f, h, name)
    ELSE Step(FALSE, f, [h EXCEPT !.saved[name] = h.auth], name)

\* match_saved_account_by_identity, lines 116-123: the first saved profile
\* of that identity, <<>> for None.
MatchSaved(h, identity) ==
    LET hits == {i \in DOMAIN SavedOrder : h.saved[SavedOrder[i]] = identity}
    IN IF ~HasIdentity(identity) \/ hits = {} THEN <<>>
       ELSE SavedOrder[CHOOSE i \in hits : \A j \in hits : i <= j]

\* resolve_current_name_or_prompt, lines 576-609; named is the answer to the
\* prompt.  Lines 603-607: no current name and an auth.json, so ask for one.
ResolvePrompt(f, h, current, named, b) ==
    IF current = <<>> /\ h.auth # Absent
    THEN IF b.died THEN b
         ELSE Step(FALSE, CmdSaveState(named, <<>>), b.home, named)
    ELSE Step(FALSE, f, h, current)

\* Lines 579-601, with st what load_state gave and matched the saved profile
\* of the identity of auth.json.
ResolveLoaded(f, h, st, matched, named) ==
    IF HasIdentity(h.auth) /\ matched # <<>>
    THEN IF st.cur # matched
         THEN Step(FALSE, CmdSaveState(matched, st.cur), h, matched)
         ELSE Step(FALSE, f, h, st.cur)
    ELSE ResolvePrompt(f, h,
                       IF /\ HasIdentity(h.auth)
                          /\ st.cur # <<>>
                          /\ HasIdentity(h.saved[st.cur])
                          /\ h.saved[st.cur] # h.auth
                       THEN <<>> ELSE st.cur,
                       named, BackupCurrentTo(f, h, named))

ResolveCurrentName(f, h, named) ==
    ResolveLoaded(f, h, CmdLoad(f), MatchSaved(h, h.auth), named)

\* What a command leaves besides: whether it got to switch, and the current
\* name it loaded before it saved the state.
Done(x, switched, before) ==
    [died |-> x.died, refused |-> x.refused, file |-> x.file, home |-> x.home,
     switched |-> switched, before |-> before]

\* cmd_switch, lines 728-733, with b what backup_current_to left and
\* current2 the name loaded anew.
SwitchSave(b, target, current2) ==
    Done(Step(FALSE, CmdSaveState(target, current2),
              [b.home EXCEPT !.auth = b.home.saved[target]], target),
         TRUE, current2)

\* Lines 727-733: auth.json replaced by the target's file, the state saved.
SwitchBacked(b, st, target) ==
    IF b.died THEN Done(b, FALSE, st.cur)
    ELSE SwitchSave(b, target, CmdLoad(b.file).cur)

\* Lines 723-726: auth.json, when there, is copied to the current profile.
SwitchBackup(r, current) ==
    IF r.home.auth # Absent THEN BackupCurrentTo(r.file, r.home, current)
    ELSE Step(FALSE, r.file, r.home, current)

\* Lines 714-726, with r what resolve_current_name_or_prompt left and st
\* what load_state gave after it.
SwitchLoaded(r, st, target, named) ==
    IF r.died THEN Done(r, FALSE, <<>>)
    ELSE IF r.home.saved[target] = Absent
    THEN Done(Step(TRUE, r.file, r.home, <<>>), FALSE, <<>>)
    ELSE IF st.cur # <<>> /\ st.cur = target THEN Done(r, FALSE, st.cur)
    ELSE SwitchBacked(SwitchBackup(r, IF st.cur = <<>> THEN named ELSE st.cur),
                      st, target)

SwitchResolved(r, target, named) == SwitchLoaded(r, CmdLoad(r.file), target, named)

\* cmd_switch with a target given, lines 701-734; named answers a prompt.
SwitchOutcome(f, h, target, named) ==
    SwitchResolved(ResolveCurrentName(f, h, named), target, named)

\* cmd_save with a name given, lines 672-682
SaveLoaded(b, st, name) ==
    IF b.died THEN Done(b, FALSE, <<>>)
    ELSE Done(Step(FALSE, CmdSaveState(name, st.cur), b.home, name), FALSE, st.cur)

SaveOutcome(f, h, name) == SaveLoaded(BackupCurrentTo(f, h, name), CmdLoad(f), name)

\* The command ends: the files are as it left them, die() is an exception.
Command(p, kind, name, x) ==
    /\ pc[p] = "idle"
    /\ op' = [op EXCEPT ![p] = [NoOp EXCEPT !.kind = kind, !.impl = "monolith",
                                            !.cur = name]]
    /\ pc' = [pc EXCEPT ![p] = IF x.died THEN "raised" ELSE "returned"]
    /\ ret' = [ret EXCEPT ![p] =
                 [NoRet EXCEPT !.kind = "command", !.cur = x.before,
                               !.map = [k \in {"switched", "refused"} |->
                                          IF k = "switched" THEN x.switched
                                          ELSE x.refused]]]
    /\ stateFile' = x.file
    /\ home' = x.home
    /\ UNCHANGED <<site, after, torn, now, authStat, cfgUrl>>
    /\ UNCHANGED <<confVars, lockVars, cacheVars>>

PromptNames == {<<"a">>, <<"b">>}

CmdSwitch(p, target) ==
    \E named \in PromptNames :
        Command(p, "cmd_switch", target, SwitchOutcome(stateFile, home, target, named))

CmdSave(p, name) == Command(p, "cmd_save", name, SaveOutcome(stateFile, home, name))

\* codex login, or the removal of auth.json, between two commands.
Login(id) ==
    /\ \A p \in Procs : pc[p] = "idle"
    /\ home.auth # id
    /\ home' = [home EXCEPT !.auth = id]
    /\ UNCHANGED <<now, authStat, cfgUrl>>
    /\ UNCHANGED <<confVars, ctlVars, lockVars, stateVars, cacheVars>>

InitCommands ==
    /\ hasFcntl = TRUE
    /\ given = [auth |-> OkAuth, resp |-> OkResponse]
    /\ InitProcs

NextCommands ==
    \/ \E target \in ProfileNames : CmdSwitch(1, target)
    \/ \E name \in ProfileNames : CmdSave(1, name)
    \/ \E id \in Identities \cup {Absent} : Login(id)
    \/ Reset(1)

SpecCommands == InitCommands /\ [][NextCommands]_vars

\* ------------------------------------------------------------ command claims
\* A switch command has ended without die() and has gone through with the
\* switch.
Switched ==
    /\ pc[1] = "returned"
    /\ op[1].kind = "cmd_switch"
    /\ ret[1].map["switched"]

\* C30: after a switch command that went through, the state file loads as
\* current = the target and previous = the name that was loaded as current
\* before the switch, and the two differ.
C30_SwitchRecorded ==
    Switched
        => /\ CmdLoad(stateFile).cur = op[1].cur
           /\ CmdLoad(stateFile).prev = ret[1].cur
           /\ CmdLoad(stateFile).cur # CmdLoad(stateFile).prev

\* ------------------------------------------------------------ backup claims
\* The step is a save or switch command run from start to end.
CommandRun ==
    /\ pc[1] = "idle"
    /\ pc'[1] \in {"returned", "raised"}
    /\ op'[1].kind \in {"cmd_save", "cmd_switch"}

\* No saved file that held an account holds another account after the step.
NoForeignCopy ==
    \A n \in ProfileNames :
        HasIdentity(home.saved[n]) /\ HasIdentity(home'.saved[n])
            => home'.saved[n] = home.saved[n]

\* The step is a command that backup_current_to ended by refusing a copy.
RefusedRun == CommandRun /\ ret'[1].map["refused"]

\* C31: no save or switch command copies auth.json of one account over a
\* saved file of another account, and a command whose backup refuses such a
\* copy leaves the saved files and the state file as they were.
C31_NoForeignOverwrite ==
    [][/\ CommandRun => NoForeignCopy
       /\ RefusedRun => home'.saved = home.saved /\ stateFile' = stateFile]_vars

\* The saved files alone: no foreign copy, and none touched by a refusal.
SavedFilesKept ==
    [][/\ CommandRun => NoForeignCopy
       /\ RefusedRun => home'.saved = home.saved]_vars

\* A command has ended by the refusal of a copy, with auth.json of one
\* account and the saved file of another still in place.
RefusalSeen ==
    /\ pc[1] = "raised"
    /\ op[1].kind \in {"cmd_save", "cmd_switch"}
    /\ ret[1].map["refused"]
    /\ \E n \in ProfileNames :
          /\ HasIdentity(home.saved[n]) /\ HasIdentity(home.auth)
          /\ home.saved[n] # home.auth

====
